---- MODULE Spec2Model ----
(***************************************************************************)
(* A model of the traffic-analysis core of the network monitoring backend: *)
(*   SYNDetector      src/Backend/syn_detector.py                          *)
(*   FirewallManager  src/network_monitoring/backend/firewall_manager.py   *)
(*   PacketAnalyzer   src/network_monitoring/backend/packet_analyzer.py    *)
(*   AttackClassifier src/network_monitoring/backend/attack_classifier.py  *)
(*   ETLPipeline      src/network_monitoring/backend/etl_pipeline.py       *)
(*   PacketCapture    src/network_monitoring/backend/packet_capture.py     *)
(*                                                                         *)
(* Time.  Every operation reads the wall clock (time.time()).  The clock   *)
(* is the variable now, counted in ticks of 1/TicksPerSecond second and    *)
(* never running backwards.  Durations configured in seconds are converted *)
(* to ticks where the code adds them to or compares them with the clock.   *)
(***************************************************************************)
EXTENDS Integers, Sequences, FiniteSets, TLC

\* ---------------------------------------------------------------- bounds
\* The addresses, in ascending order.
SortedIPs == <<"10.0.0.5", "10.0.0.6">>
IPs == {SortedIPs[i] : i \in 1..Len(SortedIPs)}
\* The address the packets are sent to.
Destination == "10.0.0.1"
TicksPerSecond == 2
MaxTime == 6
MaxThreshold == 3
MaxWindow == 2
MaxCalls == 4
MaxBlockSeconds == 2
MaxPackets == 3
MaxLongRun == 11
MaxRuns == 2
MaxRunTime == 3
MaxFloodRun == 7
MaxUdpRun == 101
MaxWorkers == 2
MaxUdpFlood == 13
MaxThreads == 2

VARIABLES
    now,             \* the wall clock, in ticks
    ncalls,          \* number of operations invoked and packets visited so
                     \* far (bounds the behaviours explored)
    threshold,       \* SYNDetector.threshold
    window_seconds,  \* SYNDetector.window_seconds
    syn_packets,     \* SYNDetector.syn_packets: address -> list of timestamps
    observed,        \* history: address -> every timestamp ever observed for it
    block_duration,  \* FirewallManager.block_duration, in seconds
    blocked_ips,     \* FirewallManager.blocked_ips: an insertion-ordered dict,
                     \* as the list of its entries in iteration order
    block_log,       \* history: address -> unblock time set by the latest
                     \* block_ip call for it (-1: never blocked)
    connections,     \* PacketAnalyzer.connections: an insertion-ordered dict
                     \* source -> list of connection entries
    attack_count,    \* PacketAnalyzer.attack_count
    local_logs,      \* FirestoreLogger.local_logs: the events logged, each
                     \* tagged with the analysis run that logged it
    an_pc,           \* analyze_pcap: "idle" or "running" (inside the loop)
    an_left,         \* analyze_pcap: packets of the capture not yet visited
    results,         \* analyze_pcap: the results dict of the current/last run
    nruns,           \* number of analyze_pcap runs started
    run_reported,    \* history: sources the detector flagged in this run
    run_blocks,      \* history: the block_ip calls made in this run
    run_visited,     \* history: packets the loop of this run has visited
    run_failed,      \* history: packets of this run whose processing raised
    captured,        \* history: address -> capture timestamps (packet.time)
                     \* of its SYN packets handed to the detector
    etl_stats,       \* ETLPipeline.stats (the counters; start/end time left out)
    etl_pc,          \* ETLPipeline.run: "idle" or "transform" (inside the loop)
    etl_input,       \* run: the source given (its kind, the number of packets
                     \* extract returned) and the packets visited so far
    etl_left,        \* transform: the number of packets not yet visited
    transformed_data,\* transform: the packets and attacks lists
    connections_map, \* transform: an insertion-ordered dict key -> connection
    ip_stats,        \* transform: address -> per-address counters
    use_firestore,   \* FirestoreLogger.use_firestore
    firestore_docs,  \* the sink: collection -> number of documents it holds
    local_files,     \* the local files written: the set of [collection, stamp,
                     \* records], one per file name, with the number of
                     \* records the file holds
    etl_batch_size,  \* run: the batch_size argument
    load_stats,      \* load: the load_stats dict
    etl_runs,        \* number of ETLPipeline.run calls made
    etl_prev,        \* history: the result of the run before the last one
    is_capturing,    \* PacketCapture.is_capturing
    stop_event,      \* PacketCapture.stop_event: whether the Event is set
    captured_packets,\* PacketCapture.captured_packets: the length of the list
    capture_stats,   \* PacketCapture.capture_stats (packet_count)
    capture_thread,  \* PacketCapture.capture_thread: the latest worker (0: None)
    workers,         \* the worker threads: worker -> its position in
                     \* _capture_packets, its limit (the packet_count argument,
                     \* 0: None), the packets its sniff has numbered and the
                     \* counter value it has read
    stop_call,       \* the stop_capture call in progress: its position, its
                     \* save_file argument and the packet_count it has read
    status_call,     \* the get_status call in progress: its position and the
                     \* fields it has read
    stop_requested,  \* history: the workers alive when stop_capture last set
                     \* the stop signal since they were started
    capture_log,     \* history of the latest capture accepted: whether its
                     \* worker has ended on an error of sniff, and whether
                     \* it has ended by itself with no stop_capture call
    threads,         \* the request threads calling into the shared detector
                     \* and firewall: thread -> the call it is inside, its
                     \* position in it, its arguments, locals and result
    ret              \* the last operation invoked, its arguments and its result

detectorVars == <<threshold, window_seconds, syn_packets, observed>>
firewallVars == <<block_duration, blocked_ips, block_log>>
analyzerVars == <<connections, attack_count, local_logs, an_pc, an_left,
                  results, nruns, run_reported, run_blocks, run_visited,
                  run_failed, captured>>
etlVars == <<etl_stats, etl_pc, etl_input, etl_left, transformed_data,
             connections_map, ip_stats, use_firestore, firestore_docs,
             local_files, etl_batch_size, load_stats, etl_runs, etl_prev>>
captureVars == <<is_capturing, stop_event, captured_packets, capture_stats,
                 capture_thread, workers, stop_call, status_call,
                 stop_requested, capture_log>>
vars == <<now, ncalls, detectorVars, firewallVars, analyzerVars, etlVars,
          captureVars, threads, ret>>

NoCall == [op |-> "none"]

\* A value that is absent: Python's None, a key missing from a dict.
None == "None"

\* ------------------------------------------------------------ SYNDetector

\* __init__, line 6: the defaults of threshold and window_seconds, which
\* app.py line 31 takes (SYNDetector()).
DefaultThreshold == 5
DefaultWindowSeconds == 2

\* window_seconds on the clock's scale.
WindowTicks == window_seconds * TicksPerSecond

\* Mutant: the comparison excludes the boundary timestamp.
CleanupOldPackets_Strict(packets, src_ip, current_time) ==
    [packets EXCEPT ![src_ip] =
        SelectSeq(@, LAMBDA timestamp : timestamp > current_time - WindowTicks)]

\* Mutant: nothing is ever pruned.
CleanupOldPackets_Never(packets, src_ip, current_time) ==
    packets

\* _cleanup_old_packets: keep the timestamps with timestamp >= window_start.
CleanupOldPackets(packets, src_ip, current_time) ==
    [packets EXCEPT ![src_ip] =
        SelectSeq(@, LAMBDA timestamp : timestamp >= current_time - WindowTicks)]

\* Mutant: the threshold must be exceeded, not reached.
ThresholdExceeded_Gt(packet_count) ==
    packet_count > threshold

\* check_syn_flood, line 41: packet_count >= self.threshold.
ThresholdExceeded(packet_count) ==
    packet_count >= threshold

\* check_syn_flood, lines 30-36: the windows after cleaning and appending.
SynPacketsAfter(packets, src_ip, current_time) ==
    [CleanupOldPackets(packets, src_ip, current_time)
        EXCEPT ![src_ip] = Append(@, current_time)]

\* check_syn_flood, lines 38-55: the result dictionary.
SynResult(packets, src_ip, current_time) ==
    LET packet_count == Len(SynPacketsAfter(packets, src_ip, current_time)[src_ip])
    IN  [op |-> "check_syn_flood",
         ip |-> src_ip,
         at |-> current_time,
         is_attack |-> ThresholdExceeded(packet_count),
         packet_count |-> packet_count]

\* SYNDetector.check_syn_flood(src_ip, packet), called at time now.
CheckSynFlood(src_ip) ==
    /\ ncalls < MaxCalls
    /\ ncalls' = ncalls + 1
    /\ syn_packets' = SynPacketsAfter(syn_packets, src_ip, now)
    /\ ret' = SynResult(syn_packets, src_ip, now)
    /\ observed' = [observed EXCEPT ![src_ip] = Append(@, now)]
    /\ UNCHANGED <<now, threshold, window_seconds, firewallVars, analyzerVars, etlVars, captureVars, threads>>

\* -------------------------------------------------------- FirewallManager
\* blocked_ips is a Python dict: iteration follows insertion order, assigning
\* to a key already present keeps the key's place, deleting a key removes it.
\* An entry is [ip_address, blocked_at, unblock_time]; the two *_formatted
\* strings of the code are renderings of the same two numbers and are left out.

DictHas(d, key) ==
    \E i \in 1..Len(d) : d[i].ip_address = key

DictGet(d, key) ==
    d[CHOOSE i \in 1..Len(d) : d[i].ip_address = key]

DictSet(d, entry) ==
    IF DictHas(d, entry.ip_address)
    THEN [i \in 1..Len(d) |->
             IF d[i].ip_address = entry.ip_address THEN entry ELSE d[i]]
    ELSE Append(d, entry)

DictDel(d, key) ==
    SelectSeq(d, LAMBDA e : e.ip_address # key)

\* block_duration on the clock's scale.
BlockTicks == block_duration * TicksPerSecond

\* Mutant: an address already present keeps its first entry.
BlockIp_KeepFirst(blocked, ip_address, current_time) ==
    IF DictHas(blocked, ip_address)
    THEN blocked
    ELSE Append(blocked, [ip_address |-> ip_address,
                          blocked_at |-> current_time,
                          unblock_time |-> current_time + BlockTicks])

\* block_ip, lines 25-33: the dict after the call.
BlockIp(blocked, ip_address, current_time) ==
    DictSet(blocked, [ip_address |-> ip_address,
                      blocked_at |-> current_time,
                      unblock_time |-> current_time + BlockTicks])

\* Mutant: the entry is left in place.
UnblockIp_KeepsEntry(blocked, ip_address) ==
    blocked

\* unblock_ip, lines 49-50: the dict after the call.
UnblockIp(blocked, ip_address) ==
    IF DictHas(blocked, ip_address) THEN DictDel(blocked, ip_address) ELSE blocked

\* unblock_ip, lines 52-60: the 'status' of the result.
UnblockStatus(blocked, ip_address) ==
    IF DictHas(blocked, ip_address) THEN "unblocked" ELSE "not_blocked"

\* Mutant: the block ends one instant late.
IsBlockedResult_Late(blocked, ip_address, current_time) ==
    IF DictHas(blocked, ip_address)
    THEN IF current_time > DictGet(blocked, ip_address).unblock_time
         THEN FALSE
         ELSE TRUE
    ELSE FALSE

\* is_blocked, lines 72-79: the value returned.
IsBlockedResult(blocked, ip_address, current_time) ==
    IF DictHas(blocked, ip_address)
    THEN IF current_time >= DictGet(blocked, ip_address).unblock_time
         THEN FALSE
         ELSE TRUE
    ELSE FALSE

\* Mutant: an expired entry is reported but not removed.
IsBlockedAfter_NoDelete(blocked, ip_address, current_time) ==
    blocked

\* is_blocked, lines 74-76: the dict after the call (lazy expiry).
IsBlockedAfter(blocked, ip_address, current_time) ==
    IF /\ DictHas(blocked, ip_address)
       /\ current_time >= DictGet(blocked, ip_address).unblock_time
    THEN DictDel(blocked, ip_address)
    ELSE blocked

\* int(x / TicksPerSecond) for x >= 0: Python's int() drops the fraction.
IntSeconds(ticks) ==
    ticks \div TicksPerSecond

\* get_blocked_ips, lines 90-99: the entries listed, in iteration order.
ActiveBlocks(blocked, current_time) ==
    LET active == SelectSeq(blocked, LAMBDA e : ~(current_time >= e.unblock_time))
    IN  [i \in 1..Len(active) |->
            [ip_address |-> active[i].ip_address,
             blocked_at |-> active[i].blocked_at,
             unblock_at |-> active[i].unblock_time,
             remaining_seconds |-> IntSeconds(active[i].unblock_time - current_time)]]

\* get_blocked_ips, lines 89-103: the dict after the expired entries are deleted.
GetBlockedIpsAfter(blocked, current_time) ==
    SelectSeq(blocked, LAMBDA e : ~(current_time >= e.unblock_time))

\* FirewallManager.block_ip(ip_address), called at time now.
BlockIpCall(ip_address) ==
    /\ ncalls < MaxCalls
    /\ ncalls' = ncalls + 1
    /\ blocked_ips' = BlockIp(blocked_ips, ip_address, now)
    /\ block_log' = [block_log EXCEPT ![ip_address] = now + BlockTicks]
    /\ ret' = [op |-> "block_ip", ip |-> ip_address, at |-> now,
               result |-> "blocked", pre |-> blocked_ips]
    /\ UNCHANGED <<now, detectorVars, block_duration, analyzerVars, etlVars, captureVars, threads>>

\* FirewallManager.unblock_ip(ip_address) (manual_unblock calls it).
UnblockIpCall(ip_address) ==
    /\ ncalls < MaxCalls
    /\ ncalls' = ncalls + 1
    /\ blocked_ips' = UnblockIp(blocked_ips, ip_address)
    /\ ret' = [op |-> "unblock_ip", ip |-> ip_address, at |-> now,
               result |-> UnblockStatus(blocked_ips, ip_address),
               pre |-> blocked_ips]
    /\ UNCHANGED <<now, detectorVars, block_duration, block_log, analyzerVars,
                   etlVars, captureVars, threads>>

\* FirewallManager.is_blocked(ip_address), called at time now.
IsBlockedCall(ip_address) ==
    /\ ncalls < MaxCalls
    /\ ncalls' = ncalls + 1
    /\ blocked_ips' = IsBlockedAfter(blocked_ips, ip_address, now)
    /\ ret' = [op |-> "is_blocked", ip |-> ip_address, at |-> now,
               result |-> IsBlockedResult(blocked_ips, ip_address, now),
               pre |-> blocked_ips]
    /\ UNCHANGED <<now, detectorVars, block_duration, block_log, analyzerVars,
                   etlVars, captureVars, threads>>

\* FirewallManager.get_blocked_ips(), called at time now.
GetBlockedIpsCall ==
    /\ ncalls < MaxCalls
    /\ ncalls' = ncalls + 1
    /\ blocked_ips' = GetBlockedIpsAfter(blocked_ips, now)
    /\ ret' = [op |-> "get_blocked_ips", at |-> now,
               result |-> ActiveBlocks(blocked_ips, now),
               pre |-> blocked_ips]
    /\ UNCHANGED <<now, detectorVars, block_duration, block_log, analyzerVars,
                   etlVars, captureVars, threads>>

\* ------------------------------------------------------- request threads
\* app.py lines 31-36 create one SYNDetector and one FirewallManager for the
\* whole application; the request handlers of the threaded server call them
\* without a lock.  A thread's call is a sequence of steps, one for every
\* access to the shared dict or list.

Threads == 1..MaxThreads

\* A thread that is in no call.
IdleThread == [op |-> "none", pc |-> "idle"]

NewThreads ==
    threads = [t \in Threads |-> IdleThread]

\* The steps below leave everything but the clock-free shared state of the
\* detector and the firewall alone.
ThreadFrame ==
    UNCHANGED <<now, threshold, window_seconds, block_duration, analyzerVars,
                etlVars, captureVars, ret>>

\* A call that has returned value.
Returned(call, value) ==
    [op |-> call.op, pc |-> "done", ip_address |-> call.ip_address,
     result |-> value]

\* A call that has ended on an exception.
Raised(call, exception) ==
    [op |-> call.op, pc |-> "raised", ip_address |-> call.ip_address,
     result |-> exception]

\* check_syn_flood, line 30, and _cleanup_old_packets, lines 61-64: thread t
\* reads the clock and builds the list of the timestamps still in the window.
CheckSynFloodFilter(t, src_ip) ==
    /\ threads[t].pc = "idle"
    /\ ncalls < MaxCalls
    /\ ncalls' = ncalls + 1
    /\ threads' = [threads EXCEPT ![t] =
           [op |-> "check_syn_flood", pc |-> "assign", ip_address |-> src_ip,
            current_time |-> now,
            kept |-> CleanupOldPackets(syn_packets, src_ip, now)[src_ip]]]
    /\ UNCHANGED <<syn_packets, observed, blocked_ips, block_log>>
    /\ ThreadFrame

\* _cleanup_old_packets, line 62: the list built is stored as the window.
CheckSynFloodAssign(t) ==
    /\ threads[t].op = "check_syn_flood"
    /\ threads[t].pc = "assign"
    /\ syn_packets' = [syn_packets EXCEPT ![threads[t].ip_address] =
                          threads[t].kept]
    /\ threads' = [threads EXCEPT ![t].pc = "append"]
    /\ UNCHANGED <<ncalls, observed, blocked_ips, block_log>>
    /\ ThreadFrame

\* check_syn_flood, line 36: the timestamp is appended to the window.
CheckSynFloodAppend(t) ==
    /\ threads[t].op = "check_syn_flood"
    /\ threads[t].pc = "append"
    /\ syn_packets' = [syn_packets EXCEPT ![threads[t].ip_address] =
                          Append(@, threads[t].current_time)]
    /\ observed' = [observed EXCEPT ![threads[t].ip_address] =
                       Append(@, threads[t].current_time)]
    /\ threads' = [threads EXCEPT ![t].pc = "len"]
    /\ UNCHANGED <<ncalls, blocked_ips, block_log>>
    /\ ThreadFrame

\* check_syn_flood, lines 39-55: the window is counted and the result built.
CheckSynFloodLen(t) ==
    /\ threads[t].op = "check_syn_flood"
    /\ threads[t].pc = "len"
    /\ LET packet_count == Len(syn_packets[threads[t].ip_address])
       IN  threads' = [threads EXCEPT ![t] =
               Returned(@, [is_attack |-> ThresholdExceeded(packet_count),
                            packet_count |-> packet_count])]
    /\ UNCHANGED <<ncalls, syn_packets, observed, blocked_ips, block_log>>
    /\ ThreadFrame

\* The slot a deleted key leaves in the entry table of a dict.
Dummy == "<dummy>"

\* The keys of a dict in iteration order.
DictKeys(d) ==
    [i \in 1..Len(d) |-> d[i].ip_address]

\* A dict iterator walks the entry table of the dict: a key inserted while it
\* is open is added at the end of the table, a key deleted leaves a dummy
\* slot.  The threads after the keys of inserted (a list) and deleted (a set)
\* have been added to and removed from the firewall's dict.
DictChanged(ths, inserted, deleted) ==
    [u \in Threads |->
        IF ths[u].op = "get_blocked_ips" /\ ths[u].pc = "next"
        THEN [ths[u] EXCEPT !.entries =
                 [i \in 1..Len(@) |-> IF @[i] \in deleted THEN Dummy ELSE @[i]]
                     \o inserted]
        ELSE ths[u]]

\* A thread may enter a call when it is in none.
CanCall(t) ==
    /\ threads[t].pc \in {"idle", "done"}
    /\ ncalls < MaxCalls

\* block_ip, lines 25-33: thread t reads the clock and stores the entry.
BlockIpStore(t, ip_address) ==
    /\ CanCall(t)
    /\ ncalls' = ncalls + 1
    /\ blocked_ips' = BlockIp(blocked_ips, ip_address, now)
    /\ block_log' = [block_log EXCEPT ![ip_address] = now + BlockTicks]
    /\ threads' = [DictChanged(threads,
                               IF DictHas(blocked_ips, ip_address)
                               THEN <<>> ELSE <<ip_address>>, {})
                      EXCEPT ![t] = [op |-> "block_ip", pc |-> "print",
                                     ip_address |-> ip_address]]
    /\ UNCHANGED <<syn_packets, observed>>
    /\ ThreadFrame

\* block_ip, line 35: the entry is looked up again for the message.
BlockIpPrint(t) ==
    /\ threads[t].op = "block_ip"
    /\ threads[t].pc = "print"
    /\ threads' = [threads EXCEPT ![t] =
           IF DictHas(blocked_ips, @.ip_address)
           THEN [@ EXCEPT !.pc = "return"]
           ELSE Raised(@, "KeyError")]
    /\ UNCHANGED <<ncalls, syn_packets, observed, blocked_ips, block_log>>
    /\ ThreadFrame

\* block_ip, lines 37-43: the entry is looked up for the result.
BlockIpReturn(t) ==
    /\ threads[t].op = "block_ip"
    /\ threads[t].pc = "return"
    /\ threads' = [threads EXCEPT ![t] =
           IF DictHas(blocked_ips, @.ip_address)
           THEN Returned(@, [status |-> "blocked",
                             unblock_at |->
                                 DictGet(blocked_ips, @.ip_address).unblock_time])
           ELSE Raised(@, "KeyError")]
    /\ UNCHANGED <<ncalls, syn_packets, observed, blocked_ips, block_log>>
    /\ ThreadFrame

\* unblock_ip, line 49: the membership test.
UnblockIpTest(t, ip_address) ==
    /\ CanCall(t)
    /\ ncalls' = ncalls + 1
    /\ threads' = [threads EXCEPT ![t] =
           IF DictHas(blocked_ips, ip_address)
           THEN [op |-> "unblock_ip", pc |-> "del",
                 ip_address |-> ip_address]
           ELSE Returned([op |-> "unblock_ip", ip_address |-> ip_address],
                         "not_blocked")]
    /\ UNCHANGED <<syn_packets, observed, blocked_ips, block_log>>
    /\ ThreadFrame

\* unblock_ip, lines 50-56: the entry is deleted.
UnblockIpDel(t) ==
    /\ threads[t].op = "unblock_ip"
    /\ threads[t].pc = "del"
    /\ LET ip_address == threads[t].ip_address
       IN  IF DictHas(blocked_ips, ip_address)
           THEN /\ blocked_ips' = DictDel(blocked_ips, ip_address)
                /\ threads' = [DictChanged(threads, <<>>, {ip_address})
                                  EXCEPT ![t] = Returned(@, "unblocked")]
           ELSE /\ threads' = [threads EXCEPT ![t] = Raised(@, "KeyError")]
                /\ UNCHANGED blocked_ips
    /\ UNCHANGED <<ncalls, syn_packets, observed, block_log>>
    /\ ThreadFrame

\* is_blocked, line 72: the membership test.
IsBlockedTest(t, ip_address) ==
    /\ CanCall(t)
    /\ ncalls' = ncalls + 1
    /\ threads' = [threads EXCEPT ![t] =
           IF DictHas(blocked_ips, ip_address)
           THEN [op |-> "is_blocked", pc |-> "read",
                 ip_address |-> ip_address]
           ELSE Returned([op |-> "is_blocked", ip_address |-> ip_address],
                         FALSE)]
    /\ UNCHANGED <<syn_packets, observed, blocked_ips, block_log>>
    /\ ThreadFrame

\* is_blocked, line 74: the entry is read and compared with the clock.
IsBlockedRead(t) ==
    /\ threads[t].op = "is_blocked"
    /\ threads[t].pc = "read"
    /\ threads' = [threads EXCEPT ![t] =
           IF ~DictHas(blocked_ips, @.ip_address)
           THEN Raised(@, "KeyError")
           ELSE IF now >= DictGet(blocked_ips, @.ip_address).unblock_time
                THEN [@ EXCEPT !.pc = "del"]
                ELSE Returned(@, TRUE)]
    /\ UNCHANGED <<ncalls, syn_packets, observed, blocked_ips, block_log>>
    /\ ThreadFrame

\* is_blocked, lines 76-77: the expired entry is deleted.
IsBlockedDel(t) ==
    /\ threads[t].op = "is_blocked"
    /\ threads[t].pc = "del"
    /\ LET ip_address == threads[t].ip_address
       IN  IF DictHas(blocked_ips, ip_address)
           THEN /\ blocked_ips' = DictDel(blocked_ips, ip_address)
                /\ threads' = [DictChanged(threads, <<>>, {ip_address})
                                  EXCEPT ![t] = Returned(@, FALSE)]
           ELSE /\ threads' = [threads EXCEPT ![t] = Raised(@, "KeyError")]
                /\ UNCHANGED blocked_ips
    /\ UNCHANGED <<ncalls, syn_packets, observed, block_log>>
    /\ ThreadFrame

\* get_blocked_ips, lines 85-90: the clock is read and the iterator over
\* blocked_ips.items() is opened; it remembers the size of the dict.
GetBlockedIpsIter(t) ==
    /\ CanCall(t)
    /\ ncalls' = ncalls + 1
    /\ threads' = [threads EXCEPT ![t] =
           [op |-> "get_blocked_ips", pc |-> "next", ip_address |-> None,
            current_time |-> now,
            entries |-> DictKeys(blocked_ips),
            used |-> Len(blocked_ips),
            left |-> Len(blocked_ips),
            pos |-> 1,
            expired_ips |-> <<>>,
            active_blocks |-> <<>>]]
    /\ UNCHANGED <<syn_packets, observed, blocked_ips, block_log>>
    /\ ThreadFrame

\* get_blocked_ips, lines 90-99: one turn of the loop.  The iterator raises
\* when the size of the dict is not the one it remembers, or when it finds
\* an entry after having yielded as many as the dict had; it skips the dummy
\* slots; at the end of the table the loop is over.
GetBlockedIpsNext(t) ==
    /\ threads[t].op = "get_blocked_ips"
    /\ threads[t].pc = "next"
    /\ LET call == threads[t]
           rest == {i \in call.pos..Len(call.entries) :
                       call.entries[i] # Dummy}
           i == CHOOSE j \in rest : \A k \in rest : j <= k
           block_info == DictGet(blocked_ips, call.entries[i])
       IN  threads' = [threads EXCEPT ![t] =
               IF call.used # Len(blocked_ips) THEN Raised(call, "RuntimeError")
               ELSE IF rest = {} THEN [call EXCEPT !.pc = "remove"]
               ELSE IF call.left = 0 THEN Raised(call, "RuntimeError")
               ELSE IF call.current_time >= block_info.unblock_time
               THEN [call EXCEPT !.pos = i + 1, !.left = @ - 1,
                                 !.expired_ips = Append(@, call.entries[i])]
               ELSE [call EXCEPT
                        !.pos = i + 1, !.left = @ - 1,
                        !.active_blocks =
                            Append(@, [ip_address |-> call.entries[i],
                                       blocked_at |-> block_info.blocked_at,
                                       unblock_at |-> block_info.unblock_time,
                                       remaining_seconds |->
                                           IntSeconds(block_info.unblock_time
                                                      - call.current_time)])]]
    /\ UNCHANGED <<ncalls, syn_packets, observed, blocked_ips, block_log>>
    /\ ThreadFrame

\* get_blocked_ips, lines 102-105: the expired entries are deleted one by
\* one, then the list of active blocks is returned.
GetBlockedIpsRemove(t) ==
    /\ threads[t].op = "get_blocked_ips"
    /\ threads[t].pc = "remove"
    /\ LET call == threads[t]
       IN  IF call.expired_ips = <<>>
           THEN /\ threads' = [threads EXCEPT ![t] =
                                  Returned(call, call.active_blocks)]
                /\ UNCHANGED blocked_ips
           ELSE IF DictHas(blocked_ips, Head(call.expired_ips))
           THEN /\ blocked_ips' = DictDel(blocked_ips, Head(call.expired_ips))
                /\ threads' = [DictChanged(threads, <<>>,
                                           {Head(call.expired_ips)})
                                  EXCEPT ![t] =
                                      [call EXCEPT !.expired_ips = Tail(@)]]
           ELSE /\ threads' = [threads EXCEPT ![t] = Raised(call, "KeyError")]
                /\ UNCHANGED blocked_ips
    /\ UNCHANGED <<ncalls, syn_packets, observed, block_log>>
    /\ ThreadFrame

\* --------------------------------------------------------- PacketAnalyzer
\* A packet of the capture, as far as the analyzer reads it:
\*   has_ip (IP in packet), src, dst (packet[IP].src/.dst), proto (the layer
\*   present: "TCP", "UDP", "ICMP" or "OTHER"), flags (the TCP flag bits set).

AttackTypes == {"SYN Flood", "UDP Flood"}

\* packet_analyzer.py line 146: more than 10 UDP packets from the same IP.
UdpFloodThreshold == 10
\* packet_analyzer.py lines 153, 154: the slices [:50] and [:10].
MaxSourcesShown == 50
MaxConnsShown == 10

\* connections[src_ip], a defaultdict(list) lookup.
ConnsOf(conns, src_ip) ==
    IF \E i \in 1..Len(conns) : conns[i].src_ip = src_ip
    THEN conns[CHOOSE i \in 1..Len(conns) : conns[i].src_ip = src_ip].conns
    ELSE <<>>

\* connections[src_ip].append(entry), lines 56-60.
ConnAppend(conns, src_ip, entry) ==
    IF \E i \in 1..Len(conns) : conns[i].src_ip = src_ip
    THEN [i \in 1..Len(conns) |->
             IF conns[i].src_ip = src_ip
             THEN [src_ip |-> src_ip, conns |-> Append(conns[i].conns, entry)]
             ELSE conns[i]]
    ELSE Append(conns, [src_ip |-> src_ip, conns |-> <<entry>>])

\* _get_protocol, lines 126-137.
GetProtocol(packet) ==
    IF packet.proto = "TCP" THEN "TCP"
    ELSE IF packet.proto = "UDP" THEN "UDP"
    ELSE IF packet.proto = "ICMP" THEN "ICMP"
    ELSE "OTHER"

\* line 63: TCP in packet and packet[TCP].flags == 0x02 (SYN and nothing else).
IsSynPacket(packet) ==
    packet.proto = "TCP" /\ packet.flags = {"S"}

\* Mutant: flag from the tenth stored UDP entry on.
DetectUdpFlood_AtThreshold(conns, src_ip) ==
    Len(SelectSeq(ConnsOf(conns, src_ip), LAMBDA c : c.protocol = "UDP"))
        >= UdpFloodThreshold

\* _detect_udp_flood, lines 139-146.
DetectUdpFlood(conns, src_ip) ==
    Len(SelectSeq(ConnsOf(conns, src_ip), LAMBDA c : c.protocol = "UDP"))
        > UdpFloodThreshold

\* The first n elements of a list: Python's seq[:n].
Take(seq, n) ==
    SubSeq(seq, 1, IF Len(seq) < n THEN Len(seq) ELSE n)

RECURSIVE FormatFrom(_, _)
FormatFrom(conns, i) ==
    IF i > Len(conns) THEN <<>>
    ELSE LET shown == Take(conns[i].conns, MaxConnsShown)
         IN  [k \in 1..Len(shown) |->
                 [source |-> conns[i].src_ip,
                  destination |-> shown[k].dst_ip,
                  protocol |-> shown[k].protocol]]
             \o FormatFrom(conns, i + 1)

\* _format_connections, lines 148-161.
FormatConnections(conns) ==
    FormatFrom(Take(conns, MaxSourcesShown), 1)

InList(list, x) ==
    \E i \in 1..Len(list) : list[i] = x

\* Mutant: every attack type blocks its source.
BlocksSource_AnyAttack(attack_type) ==
    TRUE

\* _process_packet, lines 64-121: of the two branches that register an
\* attack only the 'SYN Flood' one goes on to block_ip (lines 94-97).
BlocksSource(attack_type) ==
    attack_type = "SYN Flood"

\* Mutant: block on every flagged packet.
ShouldBlock_Always(blocked_list, src_ip) ==
    TRUE

\* line 95: src_ip not in results['blocked_ips'].
ShouldBlock(blocked_list, src_ip) ==
    ~InList(blocked_list, src_ip)

\* analyze_pcap, lines 21-29: the capture is read and results initialised.
\* total_packets is the length of the capture; its packets are drawn one by
\* one as the loop visits them.
StartRun(total_packets) ==
    /\ an_pc = "idle"
    /\ nruns < MaxRuns
    /\ nruns' = nruns + 1
    /\ an_pc' = "running"
    /\ an_left' = total_packets
    /\ results' = [total_packets |-> total_packets,
                   analyzed_packets |-> 0,
                   attacks_detected |-> 0,
                   blocked_ips |-> <<>>,
                   connections |-> <<>>,
                   attack_types |-> [t \in AttackTypes |-> 0]]
    /\ run_reported' = {}
    /\ run_blocks' = <<>>
    /\ run_visited' = 0
    /\ run_failed' = 0
    /\ UNCHANGED <<now, ncalls, detectorVars, firewallVars, connections,
                   attack_count, local_logs, captured, etlVars, captureVars, threads, ret>>

\* analyze_pcap, lines 31-33, on a packet without an IP layer: nothing happens.
SkipPacket ==
    /\ an_pc = "running"
    /\ an_left > 0
    /\ an_left' = an_left - 1
    /\ ncalls' = ncalls + 1
    /\ run_visited' = run_visited + 1
    /\ UNCHANGED <<now, detectorVars, firewallVars, connections,
                   attack_count, local_logs, an_pc, results, nruns,
                   run_reported, run_blocks, run_failed, captured, etlVars, captureVars, threads,
                   ret>>

\* Mutant: an error in one packet ends the run.
PcAfterPacketError_Abort(pc) ==
    "aborted"

\* _process_packet, lines 123-124: the exception is printed and swallowed, the
\* loop of analyze_pcap goes on.
PcAfterPacketError(pc) ==
    pc

\* analyze_pcap, lines 31-33, and _process_packet, lines 44-124, on a packet
\* with an IP layer whose processing raises: at stage "address" while the
\* addresses are read (lines 49-50), at stage "store" while the connection
\* entry is built (lines 56-60, analyzed_packets already incremented).
FailPacket(packet, stage) ==
    /\ an_pc = "running"
    /\ an_left > 0
    /\ packet.malformed
    /\ an_left' = an_left - 1
    /\ ncalls' = ncalls + 1
    /\ run_visited' = run_visited + 1
    /\ run_failed' = run_failed + 1
    /\ results' = IF stage = "store"
                  THEN [results EXCEPT !.analyzed_packets = @ + 1]
                  ELSE results
    /\ an_pc' = PcAfterPacketError(an_pc)
    /\ ret' = [op |-> "_process_packet", packet |-> packet,
               observed |-> FALSE, raised |-> TRUE]
    /\ UNCHANGED <<now, detectorVars, firewallVars, connections, attack_count,
                   local_logs, nruns, run_reported, run_blocks, captured,
                   etlVars, captureVars, threads>>

\* analyze_pcap, lines 31-33, and _process_packet, lines 44-124, on a packet
\* with an IP layer.  check_syn_flood reads the clock at now; block_ip reads it
\* again, delay ticks later.
ProcessPacket(packet, delay) ==
    LET src_ip == packet.src
        conns1 == ConnAppend(connections, src_ip,
                             [dst_ip |-> packet.dst,
                              protocol |-> GetProtocol(packet)])
        is_syn == IsSynPacket(packet)
        syn_result == SynResult(syn_packets, src_ip, now)
        syn_attack == is_syn /\ syn_result.is_attack
        udp_attack == ~is_syn /\ packet.proto = "UDP" /\ DetectUdpFlood(conns1, src_ip)
        attack_type == IF syn_attack THEN "SYN Flood" ELSE "UDP Flood"
        attacked == syn_attack \/ udp_attack
        do_block == /\ attacked
                    /\ BlocksSource(attack_type)
                    /\ ShouldBlock(results.blocked_ips, src_ip)
    IN  /\ an_pc = "running"
        /\ an_left > 0
        /\ ~packet.malformed
        /\ an_left' = an_left - 1
        /\ ncalls' = ncalls + 1
        /\ run_visited' = run_visited + 1
        /\ now + delay <= MaxRunTime
        /\ delay > 0 => do_block
        /\ now' = now + delay
        /\ connections' = conns1
        /\ IF is_syn
           THEN /\ syn_packets' = SynPacketsAfter(syn_packets, src_ip, now)
                /\ observed' = [observed EXCEPT ![src_ip] = Append(@, now)]
                /\ captured' = [captured EXCEPT ![src_ip] = Append(@, packet.time)]
           ELSE UNCHANGED <<syn_packets, observed, captured>>
        /\ ret' = [op |-> "_process_packet", packet |-> packet,
                   observed |-> is_syn, raised |-> FALSE]
        /\ attack_count' = IF attacked THEN attack_count + 1 ELSE attack_count
        /\ local_logs' =
               IF attacked
               THEN Append(local_logs, [attack_type |-> attack_type,
                                        source_ip |-> src_ip,
                                        destination_ip |-> packet.dst,
                                        run |-> nruns])
               ELSE local_logs
        /\ results' =
               [results EXCEPT
                   !.analyzed_packets = @ + 1,
                   !.attacks_detected = IF attacked THEN @ + 1 ELSE @,
                   !.attack_types = IF attacked
                                    THEN [@ EXCEPT ![attack_type] = @ + 1]
                                    ELSE @,
                   !.blocked_ips = IF do_block THEN Append(@, src_ip) ELSE @]
        /\ blocked_ips' = IF do_block
                          THEN BlockIp(blocked_ips, src_ip, now + delay)
                          ELSE blocked_ips
        /\ block_log' = IF do_block
                        THEN [block_log EXCEPT ![src_ip] = now + delay + BlockTicks]
                        ELSE block_log
        /\ run_reported' = IF syn_attack THEN run_reported \cup {src_ip}
                           ELSE run_reported
        /\ run_blocks' = IF do_block
                         THEN Append(run_blocks,
                                     [ip_address |-> src_ip,
                                      at |-> now + delay,
                                      entry |-> DictGet(BlockIp(blocked_ips, src_ip, now + delay), src_ip)])
                         ELSE run_blocks
        /\ UNCHANGED <<threshold, window_seconds, block_duration, an_pc, nruns,
                       run_failed, etlVars, captureVars, threads>>

\* analyze_pcap, lines 35-38: the loop is over, the results are returned.
FinishRun ==
    /\ an_pc = "running"
    /\ an_left = 0
    /\ an_pc' = "idle"
    /\ results' = [results EXCEPT
                      !.attacks_detected = attack_count,
                      !.connections = FormatConnections(connections)]
    /\ UNCHANGED <<now, ncalls, detectorVars, firewallVars, connections,
                   attack_count, local_logs, an_left, nruns,
                   run_reported, run_blocks, run_visited, run_failed,
                   captured, etlVars, captureVars, threads, ret>>

\* The clock advances by one tick while a capture is analysed or between runs.
RunTick ==
    /\ now < MaxRunTime
    /\ now' = now + 1
    /\ UNCHANGED <<ncalls, detectorVars, firewallVars, analyzerVars, etlVars, captureVars, threads, ret>>

\* PacketAnalyzer.__init__, lines 7-14, and FirestoreLogger.__init__, line 17.
NewAnalyzer ==
    /\ connections = <<>>
    /\ attack_count = 0
    /\ local_logs = <<>>
    /\ an_pc = "idle"
    /\ an_left = 0
    /\ results = [total_packets |-> 0,
                  analyzed_packets |-> 0,
                  attacks_detected |-> 0,
                  blocked_ips |-> <<>>,
                  connections |-> <<>>,
                  attack_types |-> [t \in AttackTypes |-> 0]]
    /\ nruns = 0
    /\ run_reported = {}
    /\ run_blocks = <<>>
    /\ run_visited = 0
    /\ run_failed = 0
    /\ captured = [ip \in IPs |-> <<>>]

\* ------------------------------------------------------- AttackClassifier
\* The outcome of a call is either a value returned or an exception raised.

Return(value) ==
    [raised |-> FALSE, value |-> value]

Raise(exception) ==
    [raised |-> TRUE, exception |-> exception]

\* The keys of a classification record.
ClassificationKeys ==
    {"classification", "confidence", "description", "impact", "mitigation"}

\* _default_classification, lines 120-147: the static table, with a generic
\* entry for every other attack type.  The description embeds the source
\* address (and, in the generic entry, the attack type).
DefaultClassification(attack_type, source_ip) ==
    IF attack_type = "SYN Flood"
    THEN [classification |-> "Denial of Service (DoS) - SYN Flood",
          confidence |-> 90,
          description |-> "SYN Flood attack detected from " \o source_ip,
          impact |-> "Server resource exhaustion, service unavailability",
          mitigation |-> "Block source IP, implement SYN cookies, rate limiting"]
    ELSE IF attack_type = "UDP Flood"
    THEN [classification |-> "Denial of Service (DoS) - UDP Flood",
          confidence |-> 85,
          description |-> "UDP Flood attack detected from " \o source_ip,
          impact |-> "Bandwidth exhaustion, service disruption",
          mitigation |-> "Rate limiting, firewall rules, traffic filtering"]
    ELSE [classification |-> "Suspicious Network Activity",
          confidence |-> 70,
          description |-> "Detected " \o attack_type \o " from " \o source_ip,
          impact |-> "Potential security risk",
          mitigation |-> "Monitor and block if necessary"]

\* _parse_classification, lines 108-114: parsed.get(key, default) for each key.
\* The text of the external model is abstracted to: whether it holds '{' and
\* '}', whether what lies between them is valid JSON, which of the five keys
\* the JSON object has, and the value found under 'confidence'.
ParsedClassification(response, attack_type) ==
    [classification |-> IF "classification" \in response.keys
                        THEN "model classification" ELSE attack_type,
     confidence |-> IF "confidence" \in response.keys
                    THEN response.confidence ELSE 75,
     description |-> IF "description" \in response.keys
                     THEN "model description"
                     ELSE "Detected " \o attack_type \o " attack",
     impact |-> IF "impact" \in response.keys
                THEN "model impact" ELSE "Potential service disruption",
     mitigation |-> IF "mitigation" \in response.keys
                    THEN "model mitigation" ELSE "Block source IP"]

\* _parse_classification, lines 95-118.  Text without braces, and text whose
\* JSON does not parse (the inner except only prints), reach line 118, where
\* the name source_ip is not defined: a NameError is raised.
ParseClassification(response, attack_type) ==
    IF response.has_braces /\ response.valid_json
    THEN Return(ParsedClassification(response, attack_type))
    ELSE Raise("NameError")

\* Mutant: the exception is re-raised.
CatchClassifyError_Reraise(outcome, attack_type, source_ip) ==
    outcome

\* classify_attack, lines 62-64: any exception of the try block is printed and
\* replaced by the default classification.
CatchClassifyError(outcome, attack_type, source_ip) ==
    IF outcome.raised
    THEN Return(DefaultClassification(attack_type, source_ip))
    ELSE outcome

\* classify_attack, lines 36-64.  model is "absent" (self.model is None),
\* "error" (generate_content or response.text raises) or "ok".
ClassifyAttackOutcome(model, response, attack_type, source_ip) ==
    IF model = "absent"
    THEN Return(DefaultClassification(attack_type, source_ip))
    ELSE CatchClassifyError(
             IF model = "error"
             THEN Raise("APIError")
             ELSE ParseClassification(response, attack_type),
             attack_type, source_ip)

\* AttackClassifier.classify_attack(attack_type, source_ip, packet).
ClassifyAttack(model, response, attack_type, source_ip) ==
    /\ ret' = [op |-> "classify_attack",
               model |-> model,
               response |-> response,
               attack_type |-> attack_type,
               source_ip |-> source_ip,
               outcome |-> ClassifyAttackOutcome(model, response, attack_type,
                                                 source_ip)]
    /\ UNCHANGED <<now, ncalls, detectorVars, firewallVars, analyzerVars,
                   etlVars, captureVars, threads>>

\* ------------------------------------------------------------ ETLPipeline
\* etl_pipeline.py lines 367 and 388: the thresholds of _detect_attacks.
EtlSynThreshold == 5
EtlUdpThreshold == 100

\* The collections load writes to.
Collections == {"packets", "connections", "attacks", "ip_statistics"}

\* extract, lines 63-92: the sources for which extraction raises.  A source is
\* "pcap_file" (a .pcap/.pcapng file), "pcap_dir" (a directory holding such
\* files), "other_file" (a file with another extension), "empty_dir" (a
\* directory without capture files) or "missing" (no such path).
SourceKinds == {"pcap_file", "pcap_dir", "other_file", "empty_dir", "missing"}

\* Mutant: extraction never fails; a source without captures yields no packet.
ExtractError_Never(kind) ==
    None

\* extract, lines 63-92: the ValueError raised, or None.
ExtractError(kind) ==
    IF kind = "other_file" THEN "Unsupported file format"
    ELSE IF kind = "empty_dir" THEN "No PCAP files found in directory"
    ELSE IF kind = "missing" THEN "Source path does not exist"
    ELSE None

\* _transform_packet, lines 211-300: the packet record as a list of one
\* element, or the empty list for None (an exception inside is swallowed and
\* None returned).  Of the fields, those the pipeline reads again are kept.
\* The ARP branch lies inside "if IP in packet" and after TCP, UDP and ICMP.
TransformPacket(packet, index) ==
    IF packet.malformed THEN <<>>
    ELSE <<[packet_index |-> index,
            timestamp |-> packet.time,
            src_ip |-> IF packet.has_ip THEN packet.src ELSE None,
            dst_ip |-> IF packet.has_ip THEN packet.dst ELSE None,
            protocol |-> IF packet.has_ip THEN GetProtocol(packet) ELSE "NON-IP",
            tcp_flags |-> [syn |-> packet.has_ip /\ packet.proto = "TCP"
                                       /\ "S" \in packet.flags,
                           ack |-> packet.has_ip /\ packet.proto = "TCP"
                                       /\ "A" \in packet.flags]]>>

\* Mutant: the protocol is left out of the key.
GetConnectionKey_NoProtocol(src_ip, dst_ip, protocol) ==
    src_ip \o ":" \o dst_ip

\* _get_connection_key, lines 337-339.
GetConnectionKey(src_ip, dst_ip, protocol) ==
    src_ip \o ":" \o dst_ip \o ":" \o protocol

MapHas(map, key) ==
    \E i \in 1..Len(map) : map[i].key = key

\* transform, lines 154-177: the connections map after one packet record.
TrackConnection(map, packet_data) ==
    IF packet_data.src_ip = None \/ packet_data.dst_ip = None THEN map
    ELSE LET conn_key == GetConnectionKey(packet_data.src_ip,
                                          packet_data.dst_ip,
                                          packet_data.protocol)
             created ==
                 IF MapHas(map, conn_key) THEN map
                 ELSE Append(map, [key |-> conn_key,
                                   src_ip |-> packet_data.src_ip,
                                   dst_ip |-> packet_data.dst_ip,
                                   protocol |-> packet_data.protocol,
                                   packet_count |-> 0,
                                   first_seen |-> packet_data.timestamp,
                                   last_seen |-> packet_data.timestamp])
         IN  [i \in 1..Len(created) |->
                 IF created[i].key = conn_key
                 THEN [created[i] EXCEPT !.packet_count = @ + 1,
                                         !.last_seen = packet_data.timestamp]
                 ELSE created[i]]

\* transform, lines 161 and 173: whether the record creates a connection.
CreatesConnection(map, packet_data) ==
    /\ packet_data.src_ip # None
    /\ packet_data.dst_ip # None
    /\ ~MapHas(map, GetConnectionKey(packet_data.src_ip, packet_data.dst_ip,
                                     packet_data.protocol))

\* The addresses that occur in the captures.
EtlAddrs == IPs \cup {Destination}

\* _update_ip_stats, lines 302-335, for the source and for the destination
\* (transform, lines 148-151), then the counters _detect_attacks keeps
\* (lines 364-365 and 385-386).
UpdateIpStats(stats, packet_data) ==
    LET bump(st, ip) ==
            IF ip = None THEN st
            ELSE [st EXCEPT ![ip].packet_count = @ + 1]
        counted == bump(bump(stats, packet_data.src_ip), packet_data.dst_ip)
    IN  IF packet_data.src_ip = None THEN counted
        ELSE IF packet_data.protocol = "TCP"
        THEN IF packet_data.tcp_flags.syn /\ ~packet_data.tcp_flags.ack
             THEN [counted EXCEPT ![packet_data.src_ip].syn_packet_count = @ + 1]
             ELSE counted
        ELSE IF packet_data.protocol = "UDP"
        THEN [counted EXCEPT ![packet_data.src_ip].udp_packet_count = @ + 1]
        ELSE counted

\* Mutant: a source is flagged when its counter reaches the threshold.
DetectAttacks_AtThreshold(stats_after, packet_data) ==
    IF packet_data.src_ip = None THEN <<>>
    ELSE IF /\ packet_data.protocol = "TCP"
            /\ packet_data.tcp_flags.syn
            /\ ~packet_data.tcp_flags.ack
            /\ stats_after[packet_data.src_ip].syn_packet_count >= EtlSynThreshold
    THEN <<[attack_type |-> "SYN Flood",
            source_ip |-> packet_data.src_ip,
            destination_ip |-> packet_data.dst_ip,
            packet_count |-> stats_after[packet_data.src_ip].syn_packet_count]>>
    ELSE IF /\ packet_data.protocol = "UDP"
            /\ stats_after[packet_data.src_ip].udp_packet_count >= EtlUdpThreshold
    THEN <<[attack_type |-> "UDP Flood",
            source_ip |-> packet_data.src_ip,
            destination_ip |-> packet_data.dst_ip,
            packet_count |-> stats_after[packet_data.src_ip].udp_packet_count]>>
    ELSE <<>>

\* _detect_attacks, lines 341-402, on the counters as updated for this record:
\* the attack record as a list of one element, or the empty list for None.
DetectAttacks(stats_after, packet_data) ==
    IF packet_data.src_ip = None THEN <<>>
    ELSE IF /\ packet_data.protocol = "TCP"
            /\ packet_data.tcp_flags.syn
            /\ ~packet_data.tcp_flags.ack
            /\ stats_after[packet_data.src_ip].syn_packet_count > EtlSynThreshold
    THEN <<[attack_type |-> "SYN Flood",
            source_ip |-> packet_data.src_ip,
            destination_ip |-> packet_data.dst_ip,
            packet_count |-> stats_after[packet_data.src_ip].syn_packet_count]>>
    ELSE IF /\ packet_data.protocol = "UDP"
            /\ stats_after[packet_data.src_ip].udp_packet_count > EtlUdpThreshold
    THEN <<[attack_type |-> "UDP Flood",
            source_ip |-> packet_data.src_ip,
            destination_ip |-> packet_data.dst_ip,
            packet_count |-> stats_after[packet_data.src_ip].udp_packet_count]>>
    ELSE <<>>

\* run, line 538, and load, line 405: the default of batch_size.
DefaultBatchSize == 100

\* load, lines 418-423: the counters load returns.
NewLoadStats ==
    [packets_loaded |-> 0,
     connections_loaded |-> 0,
     attacks_loaded |-> 0,
     errors |-> 0]

RECURSIVE SumRecords(_)
SumRecords(files) ==
    IF files = {} THEN 0
    ELSE LET f == CHOOSE g \in files : TRUE
         IN  f.records + SumRecords(files \ {f})

\* The records held by the local files of a collection.
FileRecords(files, collection) ==
    SumRecords({f \in files : f.collection = collection})

\* _save_to_local_file, line 511: the file name carries the collection and
\* the wall clock to the second (strftime('%Y%m%d_%H%M%S')).
FileStamp(current_time) ==
    IntSeconds(current_time)

\* _save_to_local_file, lines 501-519: the file of that name is opened with
\* 'w', which replaces what a file of the same name held; an exception is
\* printed and swallowed.
SaveToLocalFile(files, collection, count, current_time, file_ok) ==
    IF ~file_ok THEN files
    ELSE {f \in files : ~(/\ f.collection = collection
                          /\ f.stamp = FileStamp(current_time))}
         \cup {[collection |-> collection,
                stamp |-> FileStamp(current_time),
                records |-> count]}

\* FirestoreLogger._log_to_file, firestore_logger.py lines 93-121: the one log
\* file (it carries no stamp: -1 here) is read, the event appended and the
\* list written back; an exception is printed and swallowed.
LogToFile(files, file_ok) ==
    IF ~file_ok THEN files
    ELSE LET old == {f \in files : f.collection = "attacks" /\ f.stamp = -1}
         IN  (files \ old)
             \cup {[collection |-> "attacks",
                    stamp |-> -1,
                    records |-> SumRecords(old) + 1]}

\* The stats dict as run returns it (**self.stats).
StatsOf(stats) ==
    [total_packets |-> stats.total_packets,
     processed_packets |-> stats.processed_packets,
     failed_packets |-> stats.failed_packets,
     connections_created |-> stats.connections_created,
     attacks_detected |-> stats.attacks_detected]

\* ETLPipeline.run, lines 553-558 and 576-584, with extract, lines 47-101.
\* The source is of the given kind and holds total_packets packets, drawn one
\* by one as the loop of transform visits them.  When extract raises, run
\* returns the failure result at once; otherwise total_packets is set
\* (line 94) and transform begins with empty lists and maps (lines 119-136).
\* load_stats is the dict load creates (lines 418-423).
EtlRunStart(kind, total_packets, batch_size) ==
    /\ etl_pc = "idle"
    /\ etl_runs < MaxRuns
    /\ kind \notin {"pcap_file", "pcap_dir"} => total_packets = 0
    /\ etl_runs' = etl_runs + 1
    /\ etl_batch_size' = batch_size
    /\ load_stats' = NewLoadStats
    /\ etl_prev' = ret
    /\ etl_input' = [kind |-> kind, total_packets |-> total_packets,
                     packets |-> <<>>]
    /\ IF ExtractError(kind) # None
       THEN /\ ret' = [op |-> "run",
                       source |-> etl_input',
                       success |-> FALSE,
                       error |-> ExtractError(kind),
                       stats |-> StatsOf(etl_stats),
                       pre |-> [firestore_docs |-> firestore_docs,
                                local_files |-> local_files,
                                stats |-> StatsOf(etl_stats)]]
            /\ UNCHANGED <<etl_stats, etl_pc, etl_left, transformed_data,
                           connections_map, ip_stats>>
       ELSE /\ etl_stats' = [etl_stats EXCEPT
                                !.total_packets = total_packets]
            /\ etl_pc' = "transform"
            /\ etl_left' = total_packets
            /\ transformed_data' = [packets |-> <<>>, attacks |-> <<>>]
            /\ connections_map' = <<>>
            /\ ip_stats' = [ip \in EtlAddrs |->
                               [packet_count |-> 0,
                                syn_packet_count |-> 0,
                                udp_packet_count |-> 0]]
            /\ ret' = [op |-> "run_started",
                       pre |-> [firestore_docs |-> firestore_docs,
                                local_files |-> local_files,
                                stats |-> StatsOf(etl_stats)]]
    /\ UNCHANGED <<now, ncalls, detectorVars, firewallVars, analyzerVars, captureVars, threads,
                   use_firestore, firestore_docs, local_files>>

\* transform, lines 138-188, for the next packet of the capture.  No statement
\* of the loop body raises on a record _transform_packet has produced, so the
\* except clause (line 185) is never entered: failed_packets stays as it is.
EtlTransformPacket(packet) ==
    /\ etl_pc = "transform"
    /\ etl_left > 0
    /\ etl_left' = etl_left - 1
    /\ ncalls' = ncalls + 1
    /\ etl_input' = [etl_input EXCEPT !.packets = Append(@, packet)]
    /\ LET idx == Len(etl_input.packets)
           transformed == TransformPacket(packet, idx)
       IN  IF transformed = <<>>
           THEN UNCHANGED <<etl_stats, transformed_data, connections_map,
                            ip_stats>>
           ELSE LET packet_data == transformed[1]
                    stats_after == UpdateIpStats(ip_stats, packet_data)
                    attack_data == DetectAttacks(stats_after, packet_data)
                IN  /\ transformed_data' =
                           [packets |-> Append(transformed_data.packets,
                                               packet_data),
                            attacks |-> transformed_data.attacks \o attack_data]
                    /\ ip_stats' = stats_after
                    /\ connections_map' =
                           TrackConnection(connections_map, packet_data)
                    /\ etl_stats' =
                           [etl_stats EXCEPT
                               !.processed_packets = @ + 1,
                               !.connections_created =
                                   IF CreatesConnection(connections_map,
                                                        packet_data)
                                   THEN @ + 1 ELSE @,
                               !.attacks_detected = @ + Len(attack_data)]
    /\ UNCHANGED <<now, detectorVars, firewallVars, analyzerVars, captureVars, threads, etl_pc,
                   use_firestore, firestore_docs, local_files, etl_batch_size,
                   load_stats, etl_runs, etl_prev, ret>>

\* _load_batch, lines 479-499, and _save_to_local_file, lines 501-519: where a
\* batch is written: the sink when it is in use and the commit succeeds, else
\* the local file when writing it succeeds, else nowhere (the error is
\* printed).
WrittenTo(commit_ok, file_ok) ==
    IF use_firestore /\ commit_ok THEN "firestore"
    ELSE IF file_ok THEN "local"
    ELSE "nowhere"

\* _load_statistics, lines 521-536: the local file without the sink, else the
\* sink, with no fallback when the write fails.
StatisticsWrittenTo(commit_ok, file_ok) ==
    IF ~use_firestore THEN (IF file_ok THEN "local" ELSE "nowhere")
    ELSE IF commit_ok THEN "firestore"
    ELSE "nowhere"

\* The number of records load writes for a collection (lines 427-461).
LoadCount(collection) ==
    IF collection = "packets" THEN Len(transformed_data.packets)
    ELSE IF collection = "connections" THEN Len(connections_map)
    ELSE IF collection = "attacks" THEN Len(transformed_data.attacks)
    ELSE 1

\* Where load writes a collection.
LoadTarget(collection, commit_ok, file_ok) ==
    IF collection = "ip_statistics"
    THEN StatisticsWrittenTo(commit_ok, file_ok)
    ELSE WrittenTo(commit_ok, file_ok)

\* load, lines 430-434 and 440-444: the records of a collection the loop has
\* handed to _load_batch so far (the sum of len(batch)).
Loaded(collection) ==
    IF collection = "packets" THEN load_stats.packets_loaded
    ELSE load_stats.connections_loaded

\* load, lines 430 and 440: range(0, len(records), batch_size) yields the
\* next start while batch_size is positive and records remain; it is empty
\* for a negative batch_size.
BatchPending(collection) ==
    /\ etl_batch_size > 0
    /\ Loaded(collection) < LoadCount(collection)

\* load, lines 427-444: the collection of the next batch, packets first.
NextCollection ==
    IF BatchPending("packets") THEN "packets"
    ELSE IF BatchPending("connections") THEN "connections"
    ELSE None

\* load, lines 429-430 and 439-440: range() raises ValueError for a step of 0;
\* it is built when the list is not empty.
LoadRaises ==
    /\ etl_batch_size = 0
    /\ \/ LoadCount("packets") > 0
       \/ LoadCount("connections") > 0

\* load, lines 430-434 and 440-444, with _load_batch, lines 479-499: the loop
\* of transform is over and the next batch of the packets, then of the
\* connections, is written: to the sink, or, without the sink or when the
\* commit fails, to a local file.  The counter rises by len(batch) wherever
\* the batch went.
EtlLoadBatch(commit_ok, file_ok) ==
    /\ etl_pc = "transform"
    /\ etl_left = 0
    /\ NextCollection # None
    /\ LET collection == NextCollection
           remaining == LoadCount(collection) - Loaded(collection)
           size == IF etl_batch_size < remaining THEN etl_batch_size
                   ELSE remaining
       IN  /\ firestore_docs' =
                  IF WrittenTo(commit_ok, file_ok) = "firestore"
                  THEN [firestore_docs EXCEPT ![collection] = @ + size]
                  ELSE firestore_docs
           /\ local_files' =
                  IF use_firestore /\ commit_ok THEN local_files
                  ELSE SaveToLocalFile(local_files, collection, size, now,
                                       file_ok)
           /\ load_stats' =
                  IF collection = "packets"
                  THEN [load_stats EXCEPT !.packets_loaded = @ + size]
                  ELSE [load_stats EXCEPT !.connections_loaded = @ + size]
    /\ UNCHANGED <<now, ncalls, detectorVars, firewallVars, analyzerVars, captureVars, threads,
                   etl_stats, etl_pc, etl_input, etl_left, transformed_data,
                   connections_map, ip_stats, use_firestore, etl_batch_size,
                   etl_runs, etl_prev, ret>>

\* load, lines 429-430, 439-440 and 475-477, and run, lines 576-584: building
\* the range raises, load re-raises and run returns the failure result.
EtlLoadFail ==
    /\ etl_pc = "transform"
    /\ etl_left = 0
    /\ LoadRaises
    /\ etl_pc' = "idle"
    /\ ret' = [op |-> "run",
               source |-> etl_input,
               success |-> FALSE,
               error |-> "range() arg 3 must not be zero",
               stats |-> StatsOf(etl_stats),
               pre |-> ret.pre]
    /\ UNCHANGED <<now, ncalls, detectorVars, firewallVars, analyzerVars, captureVars, threads,
                   etl_stats, etl_input, etl_left, transformed_data,
                   connections_map, ip_stats, use_firestore, firestore_docs,
                   local_files, etl_batch_size, load_stats, etl_runs,
                   etl_prev>>

\* load, lines 446-456, with FirestoreLogger.log_attack, firestore_logger.py
\* lines 59-121, for the next attack record: the event goes to the sink, or,
\* without the sink or when the write fails, to the log file.  log_attack
\* catches every exception, so the except clause of load (line 454) is never
\* entered: attacks_loaded rises whatever became of the event.
EtlLoadAttack(commit_ok, file_ok) ==
    /\ etl_pc = "transform"
    /\ etl_left = 0
    /\ ~LoadRaises
    /\ NextCollection = None
    /\ load_stats.attacks_loaded + load_stats.errors < LoadCount("attacks")
    /\ firestore_docs' =
           IF use_firestore /\ commit_ok
           THEN [firestore_docs EXCEPT !["attacks"] = @ + 1]
           ELSE firestore_docs
    /\ local_files' =
           IF use_firestore /\ commit_ok THEN local_files
           ELSE LogToFile(local_files, file_ok)
    /\ load_stats' = [load_stats EXCEPT !.attacks_loaded = @ + 1]
    /\ UNCHANGED <<now, ncalls, detectorVars, firewallVars, analyzerVars, captureVars, threads,
                   etl_stats, etl_pc, etl_input, etl_left, transformed_data,
                   connections_map, ip_stats, use_firestore, etl_batch_size,
                   etl_runs, etl_prev, ret>>

\* load, lines 458-473, with _load_statistics, lines 521-536, and run, lines
\* 563-574: the batches and the attacks are written; the address statistics
\* go to the document 'latest' of the sink or to a local file, and run returns
\* the counters of the pipeline and of load with success = True.
EtlLoad(commit_ok, file_ok) ==
    /\ etl_pc = "transform"
    /\ etl_left = 0
    /\ ~LoadRaises
    /\ NextCollection = None
    /\ load_stats.attacks_loaded + load_stats.errors = LoadCount("attacks")
    /\ etl_pc' = "idle"
    /\ firestore_docs' =
           IF StatisticsWrittenTo(commit_ok, file_ok) = "firestore"
           THEN [firestore_docs EXCEPT !["ip_statistics"] = 1]
           ELSE firestore_docs
    /\ local_files' =
           IF StatisticsWrittenTo(commit_ok, file_ok) = "local"
           THEN SaveToLocalFile(local_files, "ip_statistics", 1, now, file_ok)
           ELSE local_files
    /\ ret' = [op |-> "run",
               source |-> etl_input,
               success |-> TRUE,
               error |-> None,
               stats |-> StatsOf(etl_stats),
               packets_loaded |-> load_stats.packets_loaded,
               connections_loaded |-> load_stats.connections_loaded,
               attacks_loaded |-> load_stats.attacks_loaded,
               errors |-> load_stats.errors,
               pre |-> ret.pre]
    /\ UNCHANGED <<now, ncalls, detectorVars, firewallVars, analyzerVars, captureVars, threads,
                   etl_stats, etl_input, etl_left, transformed_data,
                   connections_map, ip_stats, use_firestore, etl_batch_size,
                   load_stats, etl_runs, etl_prev>>

\* ETLPipeline.__init__, lines 29-45, on a FirestoreLogger with or without
\* the sink.
NewPipeline ==
    /\ etl_stats = [total_packets |-> 0,
                    processed_packets |-> 0,
                    failed_packets |-> 0,
                    connections_created |-> 0,
                    attacks_detected |-> 0]
    /\ etl_pc = "idle"
    /\ etl_input = [kind |-> "missing", total_packets |-> 0,
                    packets |-> <<>>]
    /\ etl_left = 0
    /\ transformed_data = [packets |-> <<>>, attacks |-> <<>>]
    /\ connections_map = <<>>
    /\ ip_stats = [ip \in EtlAddrs |->
                      [packet_count |-> 0,
                       syn_packet_count |-> 0,
                       udp_packet_count |-> 0]]
    /\ firestore_docs = [c \in Collections |-> 0]
    /\ local_files = {}
    /\ etl_batch_size = DefaultBatchSize
    /\ load_stats = NewLoadStats
    /\ etl_runs = 0
    /\ etl_prev = NoCall

\* ----------------------------------------------------------- PacketCapture
\* The threads of packet_capture.py: the workers start_capture creates, the
\* caller of stop_capture and the caller of get_status.  No lock is taken
\* anywhere, so each thread advances by one access to the shared fields at a
\* time and the threads interleave freely.  A client issues start_capture and
\* stop_capture one after the other; get_status may be called at any time.

\* The worker threads that can exist at once.
Workers == 1..MaxWorkers

\* A worker slot without a thread.
NoWorker == [pc |-> "unborn", limit |-> 0, seen |-> 0, read |-> 0,
             timeout |-> 0, started |-> 0]

\* The history of a capture that is running or has not been started.
NoCaptureLog == [failed |-> FALSE, self_ended |-> FALSE]

\* The workers whose thread is alive.
Alive == {w \in Workers : workers[w].pc \notin {"unborn", "exited"}}

\* PacketCapture.__init__, lines 14-36.
NewPacketCapture ==
    /\ is_capturing = FALSE
    /\ stop_event = FALSE
    /\ captured_packets = 0
    /\ capture_stats = [packet_count |-> 0]
    /\ capture_thread = 0
    /\ workers = [w \in Workers |-> NoWorker]
    /\ stop_call = [pc |-> "idle", save_file |-> FALSE, packet_count |-> 0]
    /\ status_call = [pc |-> "idle", is_capturing |-> FALSE,
                      packet_count |-> 0, after_error |-> FALSE]
    /\ stop_requested = {}
    /\ capture_log = NoCaptureLog

\* start_capture, lines 38-81, with the limit packet_count (0: None).  While a
\* capture is in progress the call is refused; else the stop signal is
\* cleared, the buffer and the counters are replaced, and a new worker thread
\* is started and kept in capture_thread.
StartCapture(packet_count, timeout) ==
    /\ stop_call.pc = "idle"
    /\ ncalls < MaxCalls
    /\ ncalls' = ncalls + 1
    /\ IF is_capturing
       THEN /\ ret' = [op |-> "start_capture", status |-> "error",
                       message |-> "Capture already in progress",
                       after_error |-> capture_log.failed]
            /\ UNCHANGED <<is_capturing, stop_event, captured_packets,
                           capture_stats, capture_thread, workers,
                           stop_requested, capture_log>>
       ELSE /\ \E w \in Workers : workers[w].pc \in {"unborn", "exited"}
            /\ LET w == CHOOSE v \in Workers :
                            workers[v].pc \in {"unborn", "exited"}
               IN  /\ workers' = [workers EXCEPT
                                     ![w] = [pc |-> "sniff",
                                             limit |-> packet_count,
                                             seen |-> 0,
                                             read |-> 0,
                                             timeout |-> timeout,
                                             started |-> now]]
                   /\ capture_thread' = w
                   /\ stop_requested' = stop_requested \ {w}
                   /\ capture_log' = NoCaptureLog
            /\ stop_event' = FALSE
            /\ captured_packets' = 0
            /\ capture_stats' = [packet_count |-> 0]
            /\ is_capturing' = TRUE
            /\ ret' = [op |-> "start_capture", status |-> "success",
                       message |-> "Packet capture started",
                       after_error |-> capture_log.failed]
    /\ UNCHANGED <<now, detectorVars, firewallVars, analyzerVars, etlVars, threads,
                   stop_call, status_call>>

\* _capture_packets, lines 102-108: sniff receives a packet and calls
\* packet_handler; with a count it numbers the packets it has received.
SniffPacket(w) ==
    /\ workers[w].pc = "sniff"
    /\ ncalls < MaxCalls
    /\ ncalls' = ncalls + 1
    /\ workers' = [workers EXCEPT
                      ![w].pc = "check",
                      ![w].seen = IF workers[w].limit > 0 THEN @ + 1 ELSE @]
    /\ UNCHANGED <<now, detectorVars, firewallVars, analyzerVars, etlVars, threads,
                   is_capturing, stop_event, captured_packets, capture_stats,
                   capture_thread, stop_call, status_call, stop_requested,
                   capture_log,
                   ret>>

\* packet_handler, lines 90-91: the handler returns when the stop signal is
\* set.
HandlerCheck(w) ==
    /\ workers[w].pc = "check"
    /\ workers' = [workers EXCEPT
                      ![w].pc = IF stop_event THEN "filter" ELSE "append"]
    /\ UNCHANGED <<now, ncalls, detectorVars, firewallVars, analyzerVars,
                   etlVars, threads, is_capturing, stop_event, captured_packets,
                   capture_stats, capture_thread, stop_call, status_call,
                   stop_requested, capture_log, ret>>

\* packet_handler, line 93: the packet is appended to the buffer.
HandlerAppend(w) ==
    /\ workers[w].pc = "append"
    /\ captured_packets' = captured_packets + 1
    /\ workers' = [workers EXCEPT ![w].pc = "count_read"]
    /\ UNCHANGED <<now, ncalls, detectorVars, firewallVars, analyzerVars,
                   etlVars, threads, is_capturing, stop_event, capture_stats,
                   capture_thread, stop_call, status_call, stop_requested,
                   capture_log,
                   ret>>

\* packet_handler, line 94: packet_count += 1 reads the counter ...
HandlerCountRead(w) ==
    /\ workers[w].pc = "count_read"
    /\ workers' = [workers EXCEPT ![w].pc = "count_write",
                                  ![w].read = capture_stats.packet_count]
    /\ UNCHANGED <<now, ncalls, detectorVars, firewallVars, analyzerVars,
                   etlVars, threads, is_capturing, stop_event, captured_packets,
                   capture_stats, capture_thread, stop_call, status_call,
                   stop_requested, capture_log, ret>>

\* ... and stores the value read plus one.
HandlerCountWrite(w) ==
    /\ workers[w].pc = "count_write"
    /\ capture_stats' = [capture_stats EXCEPT
                            !.packet_count = workers[w].read + 1]
    /\ workers' = [workers EXCEPT ![w].pc = "limit", ![w].read = 0]
    /\ UNCHANGED <<now, ncalls, detectorVars, firewallVars, analyzerVars,
                   etlVars, threads, is_capturing, stop_event, captured_packets,
                   capture_thread, stop_call, status_call, stop_requested,
                   capture_log,
                   ret>>

\* packet_handler, lines 98-99: the stop signal is set when the limit is
\* reached.
HandlerLimit(w) ==
    /\ workers[w].pc = "limit"
    /\ stop_event' = IF /\ workers[w].limit > 0
                        /\ capture_stats.packet_count >= workers[w].limit
                     THEN TRUE ELSE stop_event
    /\ workers' = [workers EXCEPT ![w].pc = "filter"]
    /\ UNCHANGED <<now, ncalls, detectorVars, firewallVars, analyzerVars,
                   etlVars, threads, is_capturing, captured_packets, capture_stats,
                   capture_thread, stop_call, status_call, stop_requested,
                   capture_log,
                   ret>>

\* _capture_packets, lines 106-107 and 113-114: after the handler sniff
\* evaluates stop_filter and its count; when either ends it, the finally
\* clause clears is_capturing and the thread exits; else sniff waits for the
\* next packet.
SniffFilter(w) ==
    /\ workers[w].pc = "filter"
    /\ IF \/ stop_event
          \/ (workers[w].limit > 0 /\ workers[w].seen >= workers[w].limit)
       THEN /\ is_capturing' = FALSE
            /\ workers' = [workers EXCEPT ![w] = [NoWorker EXCEPT
                                                     !.pc = "exited"]]
            /\ capture_log' =
                   IF w = capture_thread /\ w \notin stop_requested
                   THEN [capture_log EXCEPT !.self_ended = TRUE]
                   ELSE capture_log
       ELSE /\ workers' = [workers EXCEPT ![w].pc = "sniff"]
            /\ UNCHANGED <<is_capturing, capture_log>>
    /\ UNCHANGED <<now, ncalls, detectorVars, firewallVars, analyzerVars,
                   etlVars, threads, stop_event, captured_packets, capture_stats,
                   capture_thread, stop_call, status_call, stop_requested,
                   ret>>

\* Mutant: the error handler leaves the flag as it is.
AfterWorkerError_Unchanged(flag) ==
    flag

\* _capture_packets, lines 110-114: the value the except and finally
\* clauses give is_capturing.
AfterWorkerError(flag) ==
    FALSE

\* _capture_packets, lines 110-114: sniff raises; the error is printed,
\* is_capturing cleared and the thread exits.
SniffRaises(w) ==
    /\ workers[w].pc = "sniff"
    /\ ncalls < MaxCalls
    /\ ncalls' = ncalls + 1
    /\ is_capturing' = AfterWorkerError(is_capturing)
    /\ workers' = [workers EXCEPT ![w] = [NoWorker EXCEPT !.pc = "exited"]]
    /\ capture_log' = IF w = capture_thread
                      THEN [capture_log EXCEPT !.failed = TRUE]
                      ELSE capture_log
    /\ UNCHANGED <<now, detectorVars, firewallVars, analyzerVars, etlVars, threads,
                   stop_event, captured_packets, capture_stats,
                   capture_thread, stop_call, status_call, stop_requested,
                   ret>>

\* stop_capture, lines 126-133: without a capture in progress the call is
\* refused; else the stop signal is set and the caller goes on to join the
\* worker.
StopCapture(save_file) ==
    /\ stop_call.pc = "idle"
    /\ ncalls < MaxCalls
    /\ ncalls' = ncalls + 1
    /\ IF ~is_capturing
       THEN /\ ret' = [op |-> "stop_capture", status |-> "error",
                       raised |-> FALSE, save_file |-> save_file,
                       self_ended |-> capture_log.self_ended,
                       packets_captured |-> captured_packets]
            /\ UNCHANGED <<stop_event, stop_call, stop_requested>>
       ELSE /\ stop_event' = TRUE
            /\ stop_call' = [stop_call EXCEPT !.pc = "join",
                                              !.save_file = save_file]
            /\ stop_requested' = stop_requested \cup Alive
            /\ UNCHANGED ret
    /\ UNCHANGED <<now, detectorVars, firewallVars, analyzerVars, etlVars, threads,
                   is_capturing, captured_packets, capture_stats,
                   capture_thread, workers, status_call, capture_log>>

\* Mutant: join without a timeout.
JoinReturns_NoTimeout(thread_exited, timed_out) ==
    thread_exited

\* stop_capture, line 137: capture_thread.join(timeout=5) returns when the
\* thread has exited or when the five seconds are over.
JoinReturns(thread_exited, timed_out) ==
    thread_exited \/ timed_out

\* stop_capture, lines 136-152: join returns, is_capturing is cleared and the
\* counters are copied into the result.
StopJoin(timed_out) ==
    /\ stop_call.pc = "join"
    /\ JoinReturns(workers[capture_thread].pc = "exited", timed_out)
    /\ is_capturing' = FALSE
    /\ stop_call' = [stop_call EXCEPT
                        !.pc = "result",
                        !.packet_count = capture_stats.packet_count]
    /\ UNCHANGED <<now, ncalls, detectorVars, firewallVars, analyzerVars,
                   etlVars, threads, stop_event, captured_packets, capture_stats,
                   capture_thread, workers, status_call, stop_requested,
                   capture_log, ret>>

\* stop_capture, lines 154-164, with _save_capture, lines 166-183: the length
\* of the buffer is read into the result; when a file is asked for and the
\* buffer is not empty the capture is written, and an error of wrpcap is
\* raised again; else the result is returned.
StopReturn(save_ok) ==
    /\ stop_call.pc = "result"
    /\ stop_call' = [pc |-> "idle", save_file |-> FALSE, packet_count |-> 0]
    /\ ret' = [op |-> "stop_capture",
               status |-> "success",
               raised |-> (stop_call.save_file /\ captured_packets > 0
                              /\ ~save_ok),
               packet_count |-> stop_call.packet_count,
               packets_captured |-> captured_packets,
               is_capturing |-> is_capturing,
               worker_running |-> Alive # {}]
    /\ UNCHANGED <<now, ncalls, detectorVars, firewallVars, analyzerVars,
                   etlVars, threads, is_capturing, stop_event, captured_packets,
                   capture_stats, capture_thread, workers, status_call,
                   stop_requested, capture_log>>

\* get_status, lines 192-201: is_capturing and the counters are read ...
GetStatus ==
    /\ status_call.pc = "idle"
    /\ ncalls < MaxCalls
    /\ ncalls' = ncalls + 1
    /\ status_call' = [pc |-> "len",
                       is_capturing |-> is_capturing,
                       packet_count |-> capture_stats.packet_count,
                       after_error |-> capture_log.failed]
    /\ UNCHANGED <<now, detectorVars, firewallVars, analyzerVars, etlVars, threads,
                   is_capturing, stop_event, captured_packets, capture_stats,
                   capture_thread, workers, stop_call, stop_requested,
                   capture_log, ret>>

\* ... and, line 203, the length of the buffer; the result is returned.
GetStatusReturn ==
    /\ status_call.pc = "len"
    /\ status_call' = [pc |-> "idle", is_capturing |-> FALSE,
                       packet_count |-> 0, after_error |-> FALSE]
    /\ ret' = [op |-> "get_status",
               is_capturing |-> status_call.is_capturing,
               packet_count |-> status_call.packet_count,
               packets_captured |-> captured_packets,
               worker_running |-> Alive # {},
               after_error |-> status_call.after_error]
    /\ UNCHANGED <<now, ncalls, detectorVars, firewallVars, analyzerVars,
                   etlVars, threads, is_capturing, stop_event, captured_packets,
                   capture_stats, capture_thread, workers, stop_call,
                   stop_requested, capture_log>>

\* The clock advances by one tick.
Tick ==
    /\ now < MaxTime
    /\ now' = now + 1
    /\ UNCHANGED <<ncalls, detectorVars, firewallVars, analyzerVars, etlVars, captureVars, threads, ret>>

\* SYNDetector.__init__(threshold, window_seconds): empty windows.
NewDetector ==
    /\ threshold \in 1..MaxThreshold
    /\ window_seconds \in 1..MaxWindow
    /\ syn_packets = [ip \in IPs |-> <<>>]
    /\ observed = [ip \in IPs |-> <<>>]

\* FirewallManager.__init__: block_duration set, no entry.
NewFirewall ==
    /\ block_duration \in 1..MaxBlockSeconds
    /\ blocked_ips = <<>>
    /\ block_log = [ip \in IPs |-> -1]

InitDetector ==
    /\ now = 0
    /\ ncalls = 0
    /\ NewDetector
    /\ block_duration = 1
    /\ blocked_ips = <<>>
    /\ block_log = [ip \in IPs |-> -1]
    /\ NewAnalyzer
    /\ NewPipeline
    /\ NewPacketCapture
    /\ NewThreads
    /\ use_firestore = FALSE
    /\ ret = NoCall

NextDetector ==
    \/ Tick
    \/ \E src_ip \in IPs : CheckSynFlood(src_ip)

SpecDetector == InitDetector /\ [][NextDetector]_vars

InitFirewall ==
    /\ now = 0
    /\ ncalls = 0
    /\ threshold = 1
    /\ window_seconds = 1
    /\ syn_packets = [ip \in IPs |-> <<>>]
    /\ observed = [ip \in IPs |-> <<>>]
    /\ NewFirewall
    /\ NewAnalyzer
    /\ NewPipeline
    /\ NewPacketCapture
    /\ NewThreads
    /\ use_firestore = FALSE
    /\ ret = NoCall

NextFirewall ==
    \/ Tick
    \/ \E ip_address \in IPs : BlockIpCall(ip_address)
    \/ \E ip_address \in IPs : UnblockIpCall(ip_address)
    \/ \E ip_address \in IPs : IsBlockedCall(ip_address)
    \/ GetBlockedIpsCall

SpecFirewall == InitFirewall /\ [][NextFirewall]_vars

\* The packets of the captures analysed: a bare SYN from each address, and
\* a UDP datagram from the first address.  A packet is its IP addresses, its
\* transport protocol, its TCP flags, its capture timestamp (packet.time) and
\* whether it is malformed (processing it raises).
SynPackets ==
    {[has_ip |-> TRUE, src |-> ip, dst |-> Destination, proto |-> "TCP",
      flags |-> {"S"}, time |-> 0, malformed |-> FALSE] : ip \in IPs}
OtherPackets ==
    {[has_ip |-> TRUE, src |-> SortedIPs[1], dst |-> Destination,
      proto |-> "UDP", flags |-> {}, time |-> 0, malformed |-> FALSE]}

\* app.py lines 31-35: the detector, the firewall and the analyzer built on them.
InitAnalyzer ==
    /\ now = 0
    /\ ncalls = 0
    /\ threshold \in 1..MaxThreshold
    /\ window_seconds = 1
    /\ syn_packets = [ip \in IPs |-> <<>>]
    /\ observed = [ip \in IPs |-> <<>>]
    /\ block_duration = MaxBlockSeconds
    /\ blocked_ips = <<>>
    /\ block_log = [ip \in IPs |-> -1]
    /\ NewAnalyzer
    /\ NewPipeline
    /\ NewPacketCapture
    /\ NewThreads
    /\ use_firestore = FALSE
    /\ ret = NoCall

NextAnalyzer ==
    \/ RunTick
    \/ \E total_packets \in 0..(MaxPackets - ncalls) : StartRun(total_packets)
    \/ SkipPacket
    \/ \E packet \in SynPackets \cup OtherPackets, delay \in 0..1 :
           ProcessPacket(packet, delay)
    \/ FinishRun

SpecAnalyzer == InitAnalyzer /\ [][NextAnalyzer]_vars

\* Captures replayed from a file: SYN packets of the first address whose
\* capture timestamps lie CaptureGap ticks apart, more than any window.
CaptureGap == MaxWindow * TicksPerSecond + 1
CaptureTimes == {k * CaptureGap : k \in 0..(MaxPackets - 1)}
TimedSynPackets ==
    {[has_ip |-> TRUE, src |-> SortedIPs[1], dst |-> Destination,
      proto |-> "TCP", flags |-> {"S"}, time |-> t, malformed |-> FALSE] :
        t \in CaptureTimes}

\* The analyzer of app.py lines 31-35 on replayed captures.
InitCapture ==
    /\ now = 0
    /\ ncalls = 0
    /\ threshold \in 1..MaxThreshold
    /\ window_seconds = 1
    /\ syn_packets = [ip \in IPs |-> <<>>]
    /\ observed = [ip \in IPs |-> <<>>]
    /\ block_duration = 1
    /\ blocked_ips = <<>>
    /\ block_log = [ip \in IPs |-> -1]
    /\ NewAnalyzer
    /\ NewPipeline
    /\ NewPacketCapture
    /\ NewThreads
    /\ use_firestore = FALSE
    /\ ret = NoCall

NextCapture ==
    \/ RunTick
    \/ \E total_packets \in 0..(MaxPackets - ncalls) : StartRun(total_packets)
    \/ \E packet \in TimedSynPackets : ProcessPacket(packet, 0)
    \/ FinishRun

SpecCapture == InitCapture /\ [][NextCapture]_vars

\* Captures with TCP packets of the first address carrying the flag
\* combinations SYN, SYN+PSH, SYN+ACK and FIN, frames without an IP layer,
\* and a packet whose processing raises; analysed without the clock advancing.
FlagPackets ==
    {[has_ip |-> TRUE, src |-> SortedIPs[1], dst |-> Destination,
      proto |-> "TCP", flags |-> f, time |-> 0, malformed |-> FALSE] :
        f \in {{"S"}, {"S", "P"}, {"S", "A"}, {"F"}}}
MalformedPackets ==
    {[has_ip |-> TRUE, src |-> SortedIPs[1], dst |-> Destination,
      proto |-> "TCP", flags |-> {"S"}, time |-> 0, malformed |-> TRUE]}

InitRecords ==
    InitCapture

NextRecords ==
    \/ \E total_packets \in 0..(MaxPackets - ncalls) : StartRun(total_packets)
    \/ SkipPacket
    \/ \E packet \in FlagPackets : ProcessPacket(packet, 0)
    \/ \E packet \in MalformedPackets, stage \in {"address", "store"} :
           FailPacket(packet, stage)
    \/ FinishRun

SpecRecords == InitRecords /\ [][NextRecords]_vars

\* One long capture of UDP datagrams of the first address, to two
\* destinations, analysed without the clock advancing.
LongRunPackets ==
    {[has_ip |-> TRUE, src |-> SortedIPs[1], dst |-> d, proto |-> "UDP",
      flags |-> {}, time |-> 0, malformed |-> FALSE] :
        d \in {Destination, SortedIPs[2]}}

InitLongRun ==
    /\ InitCapture
    /\ threshold = 1

NextLongRun ==
    \/ \E total_packets \in 0..(MaxLongRun - ncalls) : StartRun(total_packets)
    \/ \E packet \in LongRunPackets : ProcessPacket(packet, 0)
    \/ FinishRun

SpecLongRun == InitLongRun /\ [][NextLongRun]_vars

\* Captures of UDP datagrams of the first address, each capture possibly
\* led by a TCP segment of that address that is not a SYN or by a SYN of
\* the second address, analysed one after the other by the same analyzer
\* without the clock advancing.
UdpRunPacketsAt(visited) ==
    {[has_ip |-> TRUE, src |-> SortedIPs[1], dst |-> Destination,
      proto |-> p, flags |-> IF p = "TCP" THEN {"A"} ELSE {}, time |-> 0,
      malformed |-> FALSE] :
        p \in IF visited = 0 THEN {"UDP", "TCP"} ELSE {"UDP"}}
    \cup
    {[has_ip |-> TRUE, src |-> SortedIPs[2], dst |-> Destination,
      proto |-> "TCP", flags |-> {"S"}, time |-> 0, malformed |-> FALSE] :
        first \in IF visited = 0 THEN {TRUE} ELSE {}}

InitUdpFlood ==
    InitLongRun

NextUdpFlood ==
    \/ \E total_packets \in 0..(MaxUdpFlood - ncalls) : StartRun(total_packets)
    \/ \E packet \in UdpRunPacketsAt(run_visited) : ProcessPacket(packet, 0)
    \/ FinishRun

SpecUdpFlood == InitUdpFlood /\ [][NextUdpFlood]_vars

\* The packets of the captures given to the pipeline: a SYN and a UDP datagram
\* between the same two addresses, a UDP datagram to another address, a frame
\* without an IP layer, and a packet _transform_packet cannot decode.  The
\* i-th packet of a capture was captured at time i.
EtlPacketsAt(time) ==
    {[has_ip |-> TRUE, src |-> SortedIPs[1], dst |-> Destination,
      proto |-> "TCP", flags |-> {"S"}, time |-> time, malformed |-> FALSE],
     [has_ip |-> TRUE, src |-> SortedIPs[1], dst |-> Destination,
      proto |-> "UDP", flags |-> {}, time |-> time, malformed |-> FALSE],
     [has_ip |-> TRUE, src |-> SortedIPs[1], dst |-> SortedIPs[2],
      proto |-> "UDP", flags |-> {}, time |-> time, malformed |-> FALSE],
     [has_ip |-> FALSE, src |-> None, dst |-> None,
      proto |-> "ARP", flags |-> {}, time |-> time, malformed |-> FALSE],
     [has_ip |-> TRUE, src |-> SortedIPs[1], dst |-> Destination,
      proto |-> "TCP", flags |-> {"S"}, time |-> time, malformed |-> TRUE]}

\* etl_api.py lines 14-16: the pipeline on its logger.
InitEtl ==
    /\ now = 0
    /\ ncalls = 0
    /\ threshold = 1
    /\ window_seconds = 1
    /\ syn_packets = [ip \in IPs |-> <<>>]
    /\ observed = [ip \in IPs |-> <<>>]
    /\ block_duration = 1
    /\ blocked_ips = <<>>
    /\ block_log = [ip \in IPs |-> -1]
    /\ NewAnalyzer
    /\ NewPipeline
    /\ NewPacketCapture
    /\ NewThreads
    /\ use_firestore \in BOOLEAN
    /\ ret = NoCall

NextEtl ==
    \/ \E kind \in SourceKinds, total_packets \in 0..(MaxPackets - ncalls) :
           EtlRunStart(kind, total_packets, DefaultBatchSize)
    \/ \E packet \in EtlPacketsAt(Len(etl_input.packets) + 1) :
           EtlTransformPacket(packet)
    \/ EtlLoadBatch(TRUE, TRUE)
    \/ \E commit_ok \in BOOLEAN, file_ok \in BOOLEAN :
           EtlLoad(commit_ok, file_ok)

SpecEtl == InitEtl /\ [][NextEtl]_vars

\* The load phase: captures of UDP datagrams of one address to two
\* destinations, loaded with the batch sizes -1, 0, 1 and 2, every write to the
\* sink and to a local file succeeding or failing, while the clock advances
\* from one second into the next during load.
BatchSizes == {-1, 0, 1, 2}
LoadPacketsAt(time) ==
    {[has_ip |-> TRUE, src |-> SortedIPs[1], dst |-> d, proto |-> "UDP",
      flags |-> {}, time |-> time, malformed |-> FALSE] :
        d \in {Destination, SortedIPs[2]}}

InitLoad ==
    InitEtl

NextLoad ==
    \/ (etl_pc = "transform" /\ etl_left = 0 /\ now < TicksPerSecond /\ Tick)
    \/ \E total_packets \in 0..(MaxPackets - ncalls), batch_size \in BatchSizes :
           EtlRunStart("pcap_file", total_packets, batch_size)
    \/ \E packet \in LoadPacketsAt(Len(etl_input.packets) + 1) :
           EtlTransformPacket(packet)
    \/ \E commit_ok \in BOOLEAN, file_ok \in BOOLEAN :
           EtlLoadBatch(commit_ok, file_ok)
    \/ EtlLoadFail
    \/ \E commit_ok \in BOOLEAN, file_ok \in BOOLEAN :
           EtlLoad(commit_ok, file_ok)

SpecLoad == InitLoad /\ [][NextLoad]_vars

\* Floods given to the pipeline, in one run: a capture of up to MaxFloodRun
\* packets, each a SYN of the first address, a SYN+ACK of the first address, a
\* SYN of the second address or a UDP datagram of the first address; or a
\* capture of MaxUdpRun UDP datagrams of the first address.  The i-th packet
\* of a capture was captured at time i.  The batches and the statistics are
\* written without failure; the write of an attack event may fail.
FloodPacketsAt(time, total_packets) ==
    IF total_packets > MaxFloodRun
    THEN {[has_ip |-> TRUE, src |-> SortedIPs[1], dst |-> Destination,
           proto |-> "UDP", flags |-> {}, time |-> time, malformed |-> FALSE]}
    ELSE {[has_ip |-> TRUE, src |-> SortedIPs[1], dst |-> Destination,
           proto |-> "TCP", flags |-> {"S"}, time |-> time,
           malformed |-> FALSE],
          [has_ip |-> TRUE, src |-> SortedIPs[1], dst |-> Destination,
           proto |-> "TCP", flags |-> {"S", "A"}, time |-> time,
           malformed |-> FALSE],
          [has_ip |-> TRUE, src |-> SortedIPs[2], dst |-> Destination,
           proto |-> "TCP", flags |-> {"S"}, time |-> time,
           malformed |-> FALSE],
          [has_ip |-> TRUE, src |-> SortedIPs[1], dst |-> Destination,
           proto |-> "UDP", flags |-> {}, time |-> time, malformed |-> FALSE]}

InitFlood ==
    InitEtl

NextFlood ==
    \/ \E total_packets \in (0..MaxFloodRun) \cup {MaxUdpRun} :
           etl_runs = 0 /\ EtlRunStart("pcap_file", total_packets,
                                       DefaultBatchSize)
    \/ \E packet \in FloodPacketsAt(Len(etl_input.packets) + 1,
                                     etl_input.total_packets) :
           EtlTransformPacket(packet)
    \/ EtlLoadBatch(TRUE, TRUE)
    \/ \E commit_ok \in BOOLEAN, file_ok \in BOOLEAN :
           EtlLoadAttack(commit_ok, file_ok)
    \/ EtlLoad(TRUE, TRUE)

SpecFlood == InitFlood /\ [][NextFlood]_vars

\* One stream of SYN segments of the first address, given both to the analyzer
\* of app.py (its detector has the default threshold and window) and to the
\* pipeline, without the clock advancing: the segments lie in one window.
AgreePacketsAt(time) ==
    {[has_ip |-> TRUE, src |-> SortedIPs[1], dst |-> Destination,
      proto |-> "TCP", flags |-> {"S"}, time |-> time, malformed |-> FALSE]}

InitAgree ==
    /\ now = 0
    /\ ncalls = 0
    /\ threshold = DefaultThreshold
    /\ window_seconds = DefaultWindowSeconds
    /\ syn_packets = [ip \in IPs |-> <<>>]
    /\ observed = [ip \in IPs |-> <<>>]
    /\ block_duration = 1
    /\ blocked_ips = <<>>
    /\ block_log = [ip \in IPs |-> -1]
    /\ NewAnalyzer
    /\ NewPipeline
    /\ NewPacketCapture
    /\ NewThreads
    /\ use_firestore = FALSE
    /\ ret = NoCall

NextAgree ==
    \/ \E total_packets \in 0..MaxFloodRun :
           nruns = 0 /\ StartRun(total_packets)
    \/ \E packet \in AgreePacketsAt(0) : ProcessPacket(packet, 0)
    \/ \E total_packets \in 0..MaxFloodRun :
           etl_runs = 0 /\ EtlRunStart("pcap_file", total_packets,
                                       DefaultBatchSize)
    \/ \E packet \in AgreePacketsAt(Len(etl_input.packets) + 1) :
           EtlTransformPacket(packet)

SpecAgree == InitAgree /\ [][NextAgree]_vars

\* The capture of app.py line 36, started with no limit or a limit of one or
\* two packets, stopped with and without a file, and polled, while packets
\* arrive; the write of the capture file succeeds or fails.
PacketLimits == {0, 1, 2}

InitLive ==
    /\ InitCapture
    /\ threshold = 1

NextLive ==
    \/ \E packet_count \in PacketLimits : StartCapture(packet_count, 0)
    \/ \E w \in Workers :
           \/ SniffPacket(w)
           \/ HandlerCheck(w)
           \/ HandlerAppend(w)
           \/ HandlerCountRead(w)
           \/ HandlerCountWrite(w)
           \/ HandlerLimit(w)
           \/ SniffFilter(w)
           \/ SniffRaises(w)
    \/ \E save_file \in BOOLEAN : StopCapture(save_file)
    \/ \E timed_out \in BOOLEAN : StopJoin(timed_out)
    \/ \E save_ok \in BOOLEAN : StopReturn(save_ok)
    \/ GetStatus
    \/ GetStatusReturn

SpecLive == InitLive /\ [][NextLive]_vars

\* The thread that called stop_capture keeps being scheduled, and the timer
\* of join(timeout=5) runs out: the steps of stop_capture are taken when
\* they can be.  Nothing obliges a packet to arrive or a worker to advance.
SpecLiveFair ==
    /\ SpecLive
    /\ WF_vars(\E timed_out \in BOOLEAN : StopJoin(timed_out))
    /\ WF_vars(\E save_ok \in BOOLEAN : StopReturn(save_ok))

\* A PacketCapture whose captures are started with or without a maximum
\* capture time (0: None), while the clock advances.
Timeouts == {0, 1}

InitTimed ==
    InitLive

NextTimed ==
    \/ \E packet_count \in PacketLimits, timeout \in Timeouts :
           StartCapture(packet_count, timeout)
    \/ \E w \in Workers :
           \/ SniffPacket(w)
           \/ HandlerCheck(w)
           \/ HandlerAppend(w)
           \/ HandlerCountRead(w)
           \/ HandlerCountWrite(w)
           \/ HandlerLimit(w)
           \/ SniffFilter(w)
           \/ SniffRaises(w)
    \/ \E save_file \in BOOLEAN : StopCapture(save_file)
    \/ \E timed_out \in BOOLEAN : StopJoin(timed_out)
    \/ \E save_ok \in BOOLEAN : StopReturn(save_ok)
    \/ Tick

SpecTimed == InitTimed /\ [][NextTimed]_vars

\* The detector of app.py line 31 called by the request threads, each for
\* one SYN packet, at one instant.
InitDetectorThreads ==
    InitDetector

NextDetectorThreads ==
    \/ \E t \in Threads, src_ip \in IPs : CheckSynFloodFilter(t, src_ip)
    \/ \E t \in Threads :
           \/ CheckSynFloodAssign(t)
           \/ CheckSynFloodAppend(t)
           \/ CheckSynFloodLen(t)

SpecDetectorThreads == InitDetectorThreads /\ [][NextDetectorThreads]_vars

\* The firewall of app.py line 32, with a block duration of one second,
\* called by the request threads while the clock advances until a block
\* made at the start and one made later have expired.
InitFirewallThreads ==
    /\ InitFirewall
    /\ block_duration = 1

NextFirewallThreads ==
    \/ (now <= BlockTicks /\ Tick)
    \/ \E t \in Threads, ip_address \in IPs :
           \/ BlockIpStore(t, ip_address)
           \/ UnblockIpTest(t, ip_address)
           \/ IsBlockedTest(t, ip_address)
    \/ \E t \in Threads :
           \/ BlockIpPrint(t)
           \/ BlockIpReturn(t)
           \/ UnblockIpDel(t)
           \/ IsBlockedRead(t)
           \/ IsBlockedDel(t)
           \/ GetBlockedIpsIter(t)
           \/ GetBlockedIpsNext(t)
           \/ GetBlockedIpsRemove(t)

SpecFirewallThreads == InitFirewallThreads /\ [][NextFirewallThreads]_vars

\* The inputs of classify_attack: the attack types the analyzer passes and
\* another one; the state of the external model; the shapes of its answer.
ClassifiedTypes == {"SYN Flood", "UDP Flood", "Port Scan"}
ModelStates == {"absent", "error", "ok"}
Responses ==
    {[has_braces |-> b, valid_json |-> FALSE, keys |-> {}, confidence |-> 0] :
        b \in BOOLEAN}
    \cup {[has_braces |-> TRUE, valid_json |-> TRUE, keys |-> k,
           confidence |-> 50] : k \in SUBSET ClassificationKeys}

InitClassifier ==
    InitCapture

NextClassifier ==
    \E model \in ModelStates, response \in Responses,
       attack_type \in ClassifiedTypes, source_ip \in IPs :
        ClassifyAttack(model, response, attack_type, source_ip)

SpecClassifier == InitClassifier /\ [][NextClassifier]_vars

\* ------------------------------------------------- SYNDetector: properties

\* The observations of ip, out of all ever made, that are not older than
\* window_seconds at time t.
ObservedInWindow(ip, t) ==
    SelectSeq(observed[ip], LAMBDA ts : ts >= t - WindowTicks)

\* Every two consecutive observations of ip are more than window_seconds apart.
SpacedApart(ip) ==
    \A i \in 1..(Len(observed[ip]) - 1) :
        observed[ip][i + 1] - observed[ip][i] > WindowTicks

\* C1: a call that is the k-th of a run of observations of one address lying
\* inside one window (the window at the call holds k observations, this one
\* included) returns is_attack = FALSE while k < threshold and is_attack = TRUE
\* when k = threshold, for every address and every configured threshold.
C1_ThresholdthObservationFlags ==
    ret.op = "check_syn_flood" =>
        LET k == Len(ObservedInWindow(ret.ip, ret.at))
        IN  /\ k < threshold => ~ret.is_attack
            /\ k = threshold => ret.is_attack

\* C1 witness: the threshold-th observation of a run flagged, after an earlier
\* observation of the same address had already left the window.
C1_Witness ==
    /\ ret.op = "check_syn_flood"
    /\ threshold >= 2
    /\ ret.is_attack
    /\ Len(ObservedInWindow(ret.ip, ret.at)) = threshold
    /\ Len(observed[ret.ip]) > threshold

\* C2: check_syn_flood(A) at time now returns packet_count = the number of
\* observations of A (this one included) with timestamp >= now - window_seconds,
\* and afterwards A's stored window holds exactly those timestamps.
C2_CountAndWindowExact ==
    ret.op = "check_syn_flood" =>
        /\ ret.packet_count = Len(ObservedInWindow(ret.ip, ret.at))
        /\ syn_packets[ret.ip] = ObservedInWindow(ret.ip, ret.at)
        /\ \A i \in 1..Len(syn_packets[ret.ip]) :
               syn_packets[ret.ip][i] >= ret.at - WindowTicks

\* C2 witness: a call whose window keeps an observation made exactly
\* window_seconds ago and has dropped an older one.
C2_Witness ==
    /\ ret.op = "check_syn_flood"
    /\ ret.packet_count >= 2
    /\ syn_packets[ret.ip][1] = ret.at - WindowTicks
    /\ Len(observed[ret.ip]) > ret.packet_count

\* C3 as stated: for every configured threshold, observations of A spaced more
\* than window_seconds apart never yield is_attack = TRUE.
C3_Original_SpacedNeverFlags ==
    (ret.op = "check_syn_flood" /\ SpacedApart(ret.ip)) => ~ret.is_attack

\* C3 amended: for every configured threshold >= 2 and every window, if every
\* two consecutive observations of A are more than window_seconds apart, no
\* check_syn_flood call for A returns is_attack = TRUE, however many are made.
C3_SpacedNeverFlagsFromTwo ==
    (ret.op = "check_syn_flood" /\ SpacedApart(ret.ip) /\ threshold >= 2)
        => ~ret.is_attack

\* C3 witness: threshold-many spaced observations of one address, none flagged.
C3_Witness ==
    /\ ret.op = "check_syn_flood"
    /\ threshold >= 2
    /\ SpacedApart(ret.ip)
    /\ Len(observed[ret.ip]) >= threshold
    /\ ~ret.is_attack

\* ----------------------------------------------- FirewallManager: properties

\* C4: is_blocked(A) at time now returns TRUE iff an entry for A exists and
\* now < its unblock_time; with no entry for A it returns FALSE.
C4_IsBlockedIffUnexpiredEntry ==
    ret.op = "is_blocked" =>
        (ret.result <=>
            \E i \in 1..Len(ret.pre) :
                /\ ret.pre[i].ip_address = ret.ip
                /\ ret.at < ret.pre[i].unblock_time)

\* C4 witness: is_blocked answers TRUE at the last instant before unblock_time,
\* for an address blocked at an earlier time.
C4_Witness ==
    /\ ret.op = "is_blocked"
    /\ ret.result = TRUE
    /\ \E i \in 1..Len(ret.pre) :
           /\ ret.pre[i].ip_address = ret.ip
           /\ ret.at = ret.pre[i].unblock_time - 1
           /\ ret.pre[i].blocked_at < ret.at

\* C5: once now >= unblock_time of A's entry, is_blocked(A) returns FALSE and
\* deletes the entry; get_blocked_ips lists no address at or after the unblock
\* time of its latest block and leaves no expired entry behind; is_blocked
\* never answers TRUE at or after that time.
C5_ExpiredNeverReportedBlocked ==
    /\ ret.op = "is_blocked" =>
           /\ (\E i \in 1..Len(ret.pre) :
                   /\ ret.pre[i].ip_address = ret.ip
                   /\ ret.at >= ret.pre[i].unblock_time)
                  => /\ ret.result = FALSE
                     /\ \A j \in 1..Len(blocked_ips) :
                            blocked_ips[j].ip_address # ret.ip
           /\ ret.result = TRUE => ret.at < block_log[ret.ip]
    /\ ret.op = "get_blocked_ips" =>
           /\ \A i \in 1..Len(ret.result) :
                  /\ ret.at < block_log[ret.result[i].ip_address]
                  /\ ret.at < ret.result[i].unblock_at
           /\ \A j \in 1..Len(blocked_ips) :
                  ret.at < blocked_ips[j].unblock_time

\* C5 witness: is_blocked found A's entry expired, answered FALSE and removed it.
C5_Witness ==
    /\ ret.op = "is_blocked"
    /\ ret.result = FALSE
    /\ \E i \in 1..Len(ret.pre) :
           /\ ret.pre[i].ip_address = ret.ip
           /\ ret.at >= ret.pre[i].unblock_time
    /\ \A j \in 1..Len(blocked_ips) : blocked_ips[j].ip_address # ret.ip

\* C6: after block_ip(A) at time t2, A has exactly one entry, with blocked_at =
\* t2 and unblock_time = t2 + block_duration, also when A was already blocked at
\* an earlier t1 with t2 - t1 < block_duration.
C6_ReblockExtendsFromSecondCall ==
    ret.op = "block_ip" =>
        /\ Cardinality({i \in 1..Len(blocked_ips) :
                           blocked_ips[i].ip_address = ret.ip}) = 1
        /\ \A i \in 1..Len(blocked_ips) :
               blocked_ips[i].ip_address = ret.ip =>
                   /\ blocked_ips[i].blocked_at = ret.at
                   /\ blocked_ips[i].unblock_time = ret.at + BlockTicks

\* C6 witness: block_ip on an address blocked earlier and not yet expired.
C6_Witness ==
    /\ ret.op = "block_ip"
    /\ \E i \in 1..Len(ret.pre) :
           /\ ret.pre[i].ip_address = ret.ip
           /\ ret.pre[i].blocked_at < ret.at
           /\ ret.at - ret.pre[i].blocked_at < BlockTicks

\* C7: unblock_ip(A) leaves no entry for A, so is_blocked(A) is FALSE from then
\* on whatever TTL remained, and leaves every other entry as it was; on an A
\* with no entry (a second unblock, an unknown address) it reports
\* 'not_blocked' and leaves the dict unchanged.
C7_UnblockImmediateIdempotent ==
    ret.op = "unblock_ip" =>
        /\ \A j \in 1..Len(blocked_ips) : blocked_ips[j].ip_address # ret.ip
        /\ \A t \in ret.at..MaxTime : ~IsBlockedResult(blocked_ips, ret.ip, t)
        /\ blocked_ips = SelectSeq(ret.pre, LAMBDA e : e.ip_address # ret.ip)
        /\ IF \E i \in 1..Len(ret.pre) : ret.pre[i].ip_address = ret.ip
           THEN ret.result = "unblocked"
           ELSE ret.result = "not_blocked" /\ blocked_ips = ret.pre

\* C7 witness: a second unblock_ip(A) while the TTL of A's latest block has not
\* run out: the first one removed the entry, this one reports 'not_blocked'.
C7_Witness ==
    /\ ret.op = "unblock_ip"
    /\ ret.result = "not_blocked"
    /\ block_log[ret.ip] > ret.at

\* The place of an address in the ascending order of addresses.
AddrRank(ip) ==
    CHOOSE i \in 1..Len(SortedIPs) : SortedIPs[i] = ip

\* C8: get_blocked_ips returns exactly the entries with now < unblock_time,
\* each once, ordered by nearest expiry first or else by address, each with
\* remaining_seconds >= 0 (the code gives the whole seconds of
\* unblock_time - now).
C8_ActiveEntriesSorted ==
    ret.op = "get_blocked_ips" =>
        LET r == ret.result
            active == {ret.pre[i].ip_address : i \in
                          {k \in 1..Len(ret.pre) : ret.at < ret.pre[k].unblock_time}}
        IN  /\ {r[i].ip_address : i \in 1..Len(r)} = active
            /\ Len(r) = Cardinality(active)
            /\ \A i \in 1..Len(r) : r[i].remaining_seconds >= 0
            /\ \/ \A i, j \in 1..Len(r) :
                      i < j => r[i].unblock_at <= r[j].unblock_at
               \/ \A i, j \in 1..Len(r) :
                      i < j => AddrRank(r[i].ip_address) < AddrRank(r[j].ip_address)

\* ------------------------------------------------ PacketAnalyzer: properties

\* The events of one type logged for a source by the current (latest) run.
RunEventCount(attack_type, ip) ==
    Cardinality({i \in 1..Len(local_logs) :
                    /\ local_logs[i].run = nruns
                    /\ local_logs[i].attack_type = attack_type
                    /\ local_logs[i].source_ip = ip})

\* C9: in one analysis run a source the detector flags gets exactly one
\* 'SYN Flood' event logged, and a source it does not flag gets none: further
\* SYN packets of a flagged source add no event.
C9_OneSynFloodEventPerSourcePerRun ==
    \A ip \in IPs :
        RunEventCount("SYN Flood", ip) = (IF ip \in run_reported THEN 1 ELSE 0)

\* C10: within one analyze_pcap run block_ip is called at most once per source
\* and results['blocked_ips'] has no duplicates; the sources blocked are exactly
\* those the detector flagged in this run, and each has a firewall entry with
\* unblock_time = time of that block_ip call + block_duration.
C10_BlockedOncePerSourcePerRun ==
    /\ \A i, j \in 1..Len(results.blocked_ips) :
           results.blocked_ips[i] = results.blocked_ips[j] => i = j
    /\ \A i, j \in 1..Len(run_blocks) :
           run_blocks[i].ip_address = run_blocks[j].ip_address => i = j
    /\ {results.blocked_ips[i] : i \in 1..Len(results.blocked_ips)} = run_reported
    /\ {run_blocks[i].ip_address : i \in 1..Len(run_blocks)} = run_reported
    /\ \A i \in 1..Len(run_blocks) :
           \E k \in 1..Len(blocked_ips) :
               /\ blocked_ips[k].ip_address = run_blocks[i].ip_address
               /\ blocked_ips[k].blocked_at = run_blocks[i].at
               /\ blocked_ips[k].unblock_time = run_blocks[i].at + BlockTicks

\* C10 witness: a second run in which a source, blocked by the first run too,
\* is flagged on two packets and blocked once, later than its first block.
C10_Witness ==
    /\ nruns = 2
    /\ \E ip \in run_reported :
           /\ RunEventCount("SYN Flood", ip) >= 2
           /\ results.blocked_ips = <<ip>>
           /\ \E i \in 1..Len(local_logs) :
                  local_logs[i].run = 1 /\ local_logs[i].source_ip = ip
           /\ run_blocks[1].at > 0

\* The capture timestamps of the SYN packets of ip handed to the detector are
\* each more than window_seconds later than the one before.
CaptureSpaced(ip) ==
    \A i \in 1..(Len(captured[ip]) - 1) :
        captured[ip][i + 1] - captured[ip][i] > WindowTicks

\* C11: SYN packets of one source whose capture timestamps are each more than
\* window_seconds apart produce no 'SYN Flood' event and no block when
\* analysed, however many they are (stated for thresholds of at least 2, a
\* threshold of 1 flagging every single packet).
C11_SpacedCaptureNeverFlags ==
    \A ip \in IPs :
        (threshold >= 2 /\ CaptureSpaced(ip)) =>
            /\ \A i \in 1..Len(local_logs) :
                   ~(/\ local_logs[i].source_ip = ip
                     /\ local_logs[i].attack_type = "SYN Flood")
            /\ block_log[ip] = -1

\* C12: a TCP packet the analyzer processes is handed to the detector as a SYN
\* observation iff its SYN flag is set and its ACK flag is clear, whatever
\* its other flags.
C12_SynWithoutAckObserved ==
    (ret.op = "_process_packet" /\ ~ret.raised /\ ret.packet.proto = "TCP") =>
        (ret.observed <=>
            ("S" \in ret.packet.flags /\ "A" \notin ret.packet.flags))

\* C13: the connections analyze_pcap returns hold one record per
\* (source, destination, protocol) key: no two records share their key.
C13_OneRecordPerConnectionKey ==
    (an_pc = "idle" /\ nruns > 0) =>
        \A i, j \in 1..Len(results.connections) :
            (/\ results.connections[i].source = results.connections[j].source
             /\ results.connections[i].destination =
                    results.connections[j].destination
             /\ results.connections[i].protocol =
                    results.connections[j].protocol)
                => i = j

\* The packet records of the transform that carry the key of connection c.
PacketsOfConnection(c) ==
    SelectSeq(transformed_data.packets,
              LAMBDA p : /\ p.src_ip = c.src_ip
                         /\ p.dst_ip = c.dst_ip
                         /\ p.protocol = c.protocol)

\* C14: in a transform there is exactly one connection per distinct
\* (src_ip, dst_ip, protocol) among the packet records processed so far; its
\* packet_count is the number of those records, its first_seen and last_seen
\* are the timestamps of the first and the last of them; on a fresh pipeline
\* connections_created is the number of connections.
C14_OneConnectionPerKey ==
    /\ \A i, j \in 1..Len(connections_map) :
           (/\ connections_map[i].src_ip = connections_map[j].src_ip
            /\ connections_map[i].dst_ip = connections_map[j].dst_ip
            /\ connections_map[i].protocol = connections_map[j].protocol)
               => i = j
    /\ \A k \in 1..Len(transformed_data.packets) :
           LET p == transformed_data.packets[k]
           IN  (p.src_ip # None /\ p.dst_ip # None) =>
                   \E i \in 1..Len(connections_map) :
                       /\ connections_map[i].src_ip = p.src_ip
                       /\ connections_map[i].dst_ip = p.dst_ip
                       /\ connections_map[i].protocol = p.protocol
    /\ \A i \in 1..Len(connections_map) :
           LET ps == PacketsOfConnection(connections_map[i])
           IN  /\ Len(ps) >= 1
               /\ connections_map[i].packet_count = Len(ps)
               /\ connections_map[i].first_seen = ps[1].timestamp
               /\ connections_map[i].last_seen = ps[Len(ps)].timestamp
    /\ etl_runs = 1 => etl_stats.connections_created = Len(connections_map)

\* C14 witness: a first run over three packets has ended with two connections,
\* the first counting two packets seen at different times.
C14_Witness ==
    /\ etl_pc = "idle"
    /\ etl_runs = 1
    /\ ret.op = "run"
    /\ ret.success
    /\ Len(transformed_data.packets) = 3
    /\ Len(connections_map) = 2
    /\ connections_map[1].packet_count = 2
    /\ connections_map[1].last_seen > connections_map[1].first_seen + 1

\* C15: the connection entries stored for a source never exceed the cap of 10.
C15_StoredEntriesCapped ==
    \A ip \in IPs : Len(ConnsOf(connections, ip)) <= MaxConnsShown

\* C16: a packet whose processing raises ends neither the loop nor the run:
\* the run is never aborted, every packet of the capture is visited, and
\* analyze_pcap returns after the last one.
C16_FailedRecordSkipped ==
    /\ an_pc \in {"idle", "running"}
    /\ nruns > 0 => run_visited + an_left = results.total_packets
    /\ an_pc = "idle" => an_left = 0
    /\ run_failed <= run_visited
    /\ results.analyzed_packets <= run_visited

\* C16 witness: a run of three packets has returned; one of its packets
\* raised, and the last one, after it, was processed.
C16_Witness ==
    /\ an_pc = "idle"
    /\ nruns = 1
    /\ run_failed = 1
    /\ run_visited = 3
    /\ results.total_packets = 3
    /\ results.analyzed_packets >= 2
    /\ ret.op = "_process_packet"
    /\ ~ret.raised

\* C17: classify_attack never raises and returns a record with the five keys;
\* when the model is absent or errs, or its text cannot be parsed, the record
\* is the static entry for 'SYN Flood' or 'UDP Flood', or the generic entry.
C17_ClassifyNeverRaises ==
    ret.op = "classify_attack" =>
        /\ ~ret.outcome.raised
        /\ DOMAIN ret.outcome.value = ClassificationKeys
        /\ (\/ ret.model # "ok"
            \/ ~(ret.response.has_braces /\ ret.response.valid_json)) =>
               /\ ret.outcome.value.classification =
                      (IF ret.attack_type = "SYN Flood"
                       THEN "Denial of Service (DoS) - SYN Flood"
                       ELSE IF ret.attack_type = "UDP Flood"
                       THEN "Denial of Service (DoS) - UDP Flood"
                       ELSE "Suspicious Network Activity")
               /\ ret.outcome.value.confidence =
                      (IF ret.attack_type = "SYN Flood" THEN 90
                       ELSE IF ret.attack_type = "UDP Flood" THEN 85
                       ELSE 70)
               /\ ret.outcome.value =
                      DefaultClassification(ret.attack_type, ret.source_ip)

\* C17 witness: the model answered with braces around text that is not JSON,
\* for an attack type outside the table: the generic entry came back.
C17_Witness ==
    /\ ret.op = "classify_attack"
    /\ ret.model = "ok"
    /\ ret.response.has_braces
    /\ ~ret.response.valid_json
    /\ ret.attack_type = "Port Scan"
    /\ ~ret.outcome.raised
    /\ ret.outcome.value.classification = "Suspicious Network Activity"

\* C18: the counters every run returns satisfy
\* total_packets = processed_packets + failed_packets.
C18_TotalIsProcessedPlusFailed ==
    ret.op = "run" =>
        ret.stats.total_packets =
            ret.stats.processed_packets + ret.stats.failed_packets

\* C19: two consecutive successful runs of one pipeline on the same source
\* return the same processed_packets, failed_packets, connections_created and
\* attacks_detected.
C19_CountersResetEachRun ==
    (/\ ret.op = "run"
     /\ etl_prev.op = "run"
     /\ ret.success
     /\ etl_prev.success
     /\ ret.source = etl_prev.source) =>
        /\ ret.stats.processed_packets = etl_prev.stats.processed_packets
        /\ ret.stats.failed_packets = etl_prev.stats.failed_packets
        /\ ret.stats.connections_created = etl_prev.stats.connections_created
        /\ ret.stats.attacks_detected = etl_prev.stats.attacks_detected

\* C20: when the source does not exist, is not a capture file or is a
\* directory without capture files, run returns success = False with an
\* error; transform and load are not executed: the counters, the sink and the
\* local fallback are as they were when run was called.
C20_ExtractFailureAbortsRun ==
    (ret.op = "run"
        /\ ret.source.kind \in {"other_file", "empty_dir", "missing"}) =>
        /\ ret.success = FALSE
        /\ ret.error # None
        /\ etl_pc = "idle"
        /\ ret.stats = ret.pre.stats
        /\ StatsOf(etl_stats) = ret.pre.stats
        /\ firestore_docs = ret.pre.firestore_docs
        /\ local_files = ret.pre.local_files

\* C20 witness: run on a directory without capture files failed, on a pipeline
\* whose earlier run had written packets.
C20_Witness ==
    /\ ret.op = "run"
    /\ ret.source.kind = "empty_dir"
    /\ ~ret.success
    /\ ret.error = "No PCAP files found in directory"
    /\ etl_prev.op = "run"
    /\ etl_prev.success
    /\ firestore_docs["packets"] + FileRecords(local_files, "packets") > 0

\* C21: run returns success = True whenever extraction succeeds, whatever
\* the batch size and whatever happens to the writes of load.
C21_SuccessWheneverExtracted ==
    (ret.op = "run" /\ ExtractError(ret.source.kind) = None) => ret.success

\* C22: while transform runs, failed_packets has risen by one for every packet
\* visited that could not be decoded, none of these packets is among the
\* transformed packets, and every other packet visited is.
C22_FailedRecordCounted ==
    etl_pc = "transform" =>
        LET failed == SelectSeq(etl_input.packets, LAMBDA p : p.malformed)
        IN  /\ etl_stats.failed_packets =
                   ret.pre.stats.failed_packets + Len(failed)
            /\ Len(transformed_data.packets) =
                   Len(etl_input.packets) - Len(failed)

\* C23: when run has returned success with a positive batch size, every
\* transformed packet and every connection is held exactly once by the sink or
\* by a local file: for both collections, what the two stores gained during
\* the run is the number of records of the collection.
C23_EveryRecordPersistedOnce ==
    (ret.op = "run" /\ ret.success /\ etl_batch_size > 0) =>
        \A c \in {"packets", "connections"} :
            (firestore_docs[c] - ret.pre.firestore_docs[c])
            + (FileRecords(local_files, c)
               - FileRecords(ret.pre.local_files, c))
            = LoadCount(c)

\* C24: when run has returned success, attacks_loaded is the number of attack
\* events the sink and the log file gained during the run, and
\* attacks_loaded + errors is the number of attack records.
C24_AttacksLoadedArePersisted ==
    (ret.op = "run" /\ ret.success) =>
        /\ ret.attacks_loaded =
               (firestore_docs["attacks"] - ret.pre.firestore_docs["attacks"])
               + (FileRecords(local_files, "attacks")
                  - FileRecords(ret.pre.local_files, "attacks"))
        /\ ret.attacks_loaded + ret.errors = LoadCount("attacks")

\* The packet records up to the j-th that are SYN-without-ACK segments of the
\* source of the j-th.
SynRecordsUpTo(j) ==
    SelectSeq(SubSeq(transformed_data.packets, 1, j),
              LAMBDA p : /\ p.src_ip = transformed_data.packets[j].src_ip
                         /\ p.protocol = "TCP"
                         /\ p.tcp_flags.syn
                         /\ ~p.tcp_flags.ack)

\* The packet records up to the j-th that are UDP datagrams of the source of
\* the j-th.
UdpRecordsUpTo(j) ==
    SelectSeq(SubSeq(transformed_data.packets, 1, j),
              LAMBDA p : /\ p.src_ip = transformed_data.packets[j].src_ip
                         /\ p.protocol = "UDP")

\* The attack records the first j packet records of the run call for: a
\* 'SYN Flood' record for a SYN-without-ACK segment that is at least the sixth
\* of its source, a 'UDP Flood' record for a datagram that is at least the
\* 101st of its source, each carrying the count reached.
RECURSIVE AttacksCalledFor(_)
AttacksCalledFor(j) ==
    IF j = 0 THEN <<>>
    ELSE LET p == transformed_data.packets[j]
             is_syn == /\ p.src_ip # None
                       /\ p.protocol = "TCP"
                       /\ p.tcp_flags.syn
                       /\ ~p.tcp_flags.ack
             is_udp == p.src_ip # None /\ p.protocol = "UDP"
         IN  AttacksCalledFor(j - 1)
             \o (IF is_syn /\ Len(SynRecordsUpTo(j)) > 5
                 THEN <<[attack_type |-> "SYN Flood",
                         source_ip |-> p.src_ip,
                         destination_ip |-> p.dst_ip,
                         packet_count |-> Len(SynRecordsUpTo(j))]>>
                 ELSE IF is_udp /\ Len(UdpRecordsUpTo(j)) > 100
                 THEN <<[attack_type |-> "UDP Flood",
                         source_ip |-> p.src_ip,
                         destination_ip |-> p.dst_ip,
                         packet_count |-> Len(UdpRecordsUpTo(j))]>>
                 ELSE <<>>)

\* C25: within a run the attack records are those of the per-source lifetime
\* counters: a SYN-without-ACK segment of S yields a 'SYN Flood' record exactly
\* when S has sent more than 5 such segments so far, this one included, a UDP
\* datagram of S a 'UDP Flood' record exactly when S has sent more than 100
\* datagrams so far; the counters never fall and count the whole run.
C25_LifetimeCountersFlag ==
    /\ transformed_data.attacks =
           AttacksCalledFor(Len(transformed_data.packets))
    /\ \A j \in 1..Len(transformed_data.packets) :
           LET p == transformed_data.packets[j]
           IN  p.src_ip # None =>
                   /\ ip_stats[p.src_ip].syn_packet_count
                          >= Len(SynRecordsUpTo(j))
                   /\ ip_stats[p.src_ip].udp_packet_count
                          >= Len(UdpRecordsUpTo(j))

\* C25 witness: seven packets have been transformed; the first address sent
\* six SYN segments, of which only the sixth, seen after a SYN+ACK of the same
\* address, yielded a record.
C25_Witness ==
    /\ etl_pc = "transform"
    /\ Len(transformed_data.packets) = 7
    /\ transformed_data.packets[6].tcp_flags.ack
    /\ Len(transformed_data.attacks) = 1
    /\ transformed_data.attacks[1].attack_type = "SYN Flood"
    /\ transformed_data.attacks[1].source_ip = SortedIPs[1]
    /\ transformed_data.attacks[1].packet_count = 6
    /\ ip_stats[SortedIPs[1]].syn_packet_count = 6

\* C26: a run holds at most one attack record per source and attack type, and
\* attacks_detected has risen by the number of attack records.
C26_OneRecordPerTrigger ==
    etl_runs > 0 =>
        /\ \A i, j \in 1..Len(transformed_data.attacks) :
               (/\ transformed_data.attacks[i].attack_type =
                       transformed_data.attacks[j].attack_type
                /\ transformed_data.attacks[i].source_ip =
                       transformed_data.attacks[j].source_ip) => i = j
        /\ etl_stats.attacks_detected - ret.pre.stats.attacks_detected
               = Len(transformed_data.attacks)

\* C27: when the analyzer and the pipeline have each processed the same
\* number of SYN-without-ACK segments of one source, all inside one window,
\* either both have flagged the source or neither has: the two flag it on the
\* same packet index.
C27_SameIndexFlagged ==
    (/\ an_pc = "running"
     /\ etl_pc = "transform"
     /\ run_visited = Len(transformed_data.packets)) =>
        ((SortedIPs[1] \in run_reported)
            <=> (\E i \in 1..Len(transformed_data.attacks) :
                    /\ transformed_data.attacks[i].attack_type = "SYN Flood"
                    /\ transformed_data.attacks[i].source_ip = SortedIPs[1]))

C29_NoAppendAfterStop ==
    [][\A w \in stop_requested :
           /\ ~(workers[w].pc = "append" /\ workers'[w].pc = "count_read")
           /\ ~(workers[w].pc = "count_write" /\ workers'[w].pc = "limit")]_vars

\* C30: a get_status result and a stop_capture result taken while a worker
\* is running carry packet_count = packets_captured.
C30_CountersAgree ==
    (/\ ret.op \in {"get_status", "stop_capture"}
     /\ ret.op = "stop_capture" => ret.status = "success"
     /\ ret.worker_running) =>
        ret.packet_count = ret.packets_captured

C36_AtMostOneWorker ==
    Cardinality(Alive) <= 1

\* C37: a capture that ended by itself, its worker having exited on reaching
\* packet_count, can still be finalized: the stop_capture(save_file=True)
\* called next is not answered with an error.
C37_SelfEndedCaptureFinalized ==
    (ret.op = "stop_capture" /\ ret.status = "error") =>
        ~(ret.self_ended /\ ret.save_file /\ ret.packets_captured > 0)

\* C35: a capture started with a timeout stops by itself within the maximum
\* capture time: no worker started with a timeout is still alive once that
\* many seconds have passed since its start.
C35_TimeoutEndsCapture ==
    \A w \in Alive :
        workers[w].timeout > 0 =>
            now <= workers[w].started
                       + workers[w].timeout * TicksPerSecond

\* The UDP entries stored for a source in a connection table.
UdpEntries(conns, ip) ==
    Len(SelectSeq(ConnsOf(conns, ip), LAMBDA c : c.protocol = "UDP"))

\* C34: a UDP packet of a source is flagged as 'UDP Flood' exactly when the
\* UDP entries stored for the source over the analyzer's lifetime, all runs
\* and this packet included, exceed 10; a flagged packet adds one event to the
\* log and one to the run's counters, so past 10 every further UDP packet
\* emits another event; an unflagged one adds nothing.
C34_UdpFloodIffOverTenStored ==
    [][(/\ run_visited' = run_visited + 1
        /\ ret'.op = "_process_packet"
        /\ ret'.packet.proto = "UDP")
       => LET src_ip == ret'.packet.src
              flagged == UdpEntries(connections', src_ip) > UdpFloodThreshold
          IN  /\ UdpEntries(connections', src_ip)
                     = UdpEntries(connections, src_ip) + 1
              /\ local_logs' =
                     IF flagged
                     THEN Append(local_logs,
                                 [attack_type |-> "UDP Flood",
                                  source_ip |-> src_ip,
                                  destination_ip |-> ret'.packet.dst,
                                  run |-> nruns])
                     ELSE local_logs
              /\ results'.attack_types["UDP Flood"] =
                     results.attack_types["UDP Flood"]
                         + (IF flagged THEN 1 ELSE 0)]_vars

\* The twelfth UDP datagram of a source, in the analyzer's second run and
\* after a TCP segment of the source: the second 'UDP Flood' event.
C34_Witness ==
    /\ nruns = 2
    /\ ret.op = "_process_packet"
    /\ ret.packet.proto = "UDP"
    /\ UdpEntries(connections, ret.packet.src) = UdpFloodThreshold + 2
    /\ Len(ConnsOf(connections, ret.packet.src)) > UdpFloodThreshold + 2
    /\ Cardinality({i \in 1..Len(local_logs) :
                       local_logs[i].attack_type = "UDP Flood"}) = 2

\* C38: the attacks_detected a run of analyze_pcap returns equals the sum of
\* that run's attack_types counts, in the first run and in every later one.
C38_AttacksDetectedIsSumOfTypes ==
    (an_pc = "idle" /\ nruns > 0) =>
        results.attacks_detected
            = results.attack_types["SYN Flood"]
                  + results.attack_types["UDP Flood"]

\* The sources for which an event of a type has been logged, in any run.
SourcesLogged(attack_type) ==
    {local_logs[i].source_ip :
        i \in {j \in 1..Len(local_logs) :
                  local_logs[j].attack_type = attack_type}}

\* C39: a 'UDP Flood' detection never reaches the firewall: the blocked_ips of
\* a run are exactly the sources the SYN detector flagged during that run,
\* and the firewall holds entries only for sources flagged for a 'SYN Flood',
\* so a source that only triggered 'UDP Flood' is not blocked.
C39_UdpFloodNeverBlocks ==
    /\ {results.blocked_ips[i] : i \in 1..Len(results.blocked_ips)}
           = run_reported
    /\ \A k \in 1..Len(blocked_ips) :
           blocked_ips[k].ip_address \in SourcesLogged("SYN Flood")

\* A run that logged a 'UDP Flood' for one source and flagged another for a
\* 'SYN Flood' has returned: only the second is blocked.
C39_Witness ==
    /\ an_pc = "idle"
    /\ nruns > 0
    /\ RunEventCount("UDP Flood", SortedIPs[1]) > 0
    /\ SortedIPs[1] \notin SourcesLogged("SYN Flood")
    /\ results.attack_types["UDP Flood"] > 0
    /\ results.blocked_ips = <<SortedIPs[2]>>
    /\ \A k \in 1..Len(blocked_ips) :
           blocked_ips[k].ip_address # SortedIPs[1]

\* C32: whatever the interleaving of concurrent block_ip, unblock_ip,
\* is_blocked and get_blocked_ips calls on the shared FirewallManager, no call
\* ends on an exception (and the results are those of some serial order).
C32_NoCallRaises ==
    \A t \in Threads : threads[t].pc # "raised"

\* C33: concurrent check_syn_flood calls for one address lose no observation:
\* when the n calls made for it at one instant have all returned, the stored
\* window of the address holds n timestamps and one of the calls has returned
\* packet_count = n.
C33_NoObservationLost ==
    (\A t \in Threads : threads[t].pc \in {"idle", "done"}) =>
        \A ip \in IPs :
            LET calls == {t \in Threads :
                             /\ threads[t].op = "check_syn_flood"
                             /\ threads[t].ip_address = ip}
            IN  /\ Len(syn_packets[ip]) = Cardinality(calls)
                /\ calls # {} =>
                       \E t \in calls :
                           threads[t].result.packet_count = Cardinality(calls)

====
